---- MODULE Spec2Model ----
(***************************************************************************)
(* pixelQR: the notification center (NotificationManager,                  *)
(* src/js/export-manager.js) and the persistence gateway (DatabaseManager, *)
(* src/js/databaseManager.js).                                             *)
(*                                                                         *)
(* JavaScript runs every handler to completion on one thread, so each      *)
(* handler, timer callback and continuation after an await is one action.  *)
(* Time is counted in ticks of 100 ms (every delay of the code is a        *)
(* multiple of 100 ms); a timer holds the ticks left until it is due, and  *)
(* time cannot pass a due timer.                                           *)
(***************************************************************************)
EXTENDS Integers, Sequences, FiniteSets, TLC

VARIABLES
    \* ---- NotificationManager ----
    notifications,  \* this.notifications: Map id -> {element, timeout, resolve}
    container,      \* children of #notification-container (elements, by number)
    shown,          \* elements whose classList holds 'show'
    timers,         \* pending setTimeout callbacks: [cb, n, left]
    settled,        \* the promise returned by confirm(): "pending" | "true" | "false"
    uncaught,       \* an exception escaped a handler or a timer callback
    created,        \* what each id handed out so far was created as (history)
    firstTrigger,   \* first trigger fired on each confirmation (history)
    lastCall,       \* the last call into the center or timer callback (history)
    \* ---- DatabaseManager ----
    ACCESS_TOKEN,   \* this.ACCESS_TOKEN: 0 (null) or a token
    localStorage,   \* [token, index, slots] under LOCAL_STORAGE_PREFIX
    inflight,       \* async gateway calls suspended in their await: [op, id, rec]
    lastOp,         \* the gateway call that completed in the last step (history)
    savedOk,        \* ids whose save returned true (history)
    \* ---- QRCodeGenerator ----
    form,           \* the form inputs: [content, size]
    currentQRCode,  \* this.currentQRCode: NoCode (null) or the generated code
    preview,        \* the canvas shown in #qr-preview, or NoCanvas
    buttons,        \* [actions: download/save/export enabled, generate: "idle" | "loading"]
    appSavedCodes,  \* QRCodeGenerator.savedCodes: its in-memory list of saved records
    appUncaught,    \* an exception or rejection escaped a handler of the application
    lastApp,        \* the handler that ran in the last step and its notifications (history)
    generateTimeout, \* the pending timers of the input handler: the time each has left
    burst           \* [since: time since the last input event, fired: runs of
                    \*  generateQRCode() its timers have made since] (history)

ncVars == <<notifications, container, shown, timers, settled, uncaught, created,
            firstTrigger, lastCall>>
dbVars == <<ACCESS_TOKEN, localStorage, inflight, lastOp, savedOk>>
appVars == <<form, currentQRCode, preview, buttons, appSavedCodes, appUncaught, lastApp,
             generateTimeout, burst>>
vars == <<notifications, container, shown, timers, settled, uncaught, created,
          firstTrigger, lastCall, ACCESS_TOKEN, localStorage, inflight,
          lastOp, savedOk, form, currentQRCode, preview, buttons, appSavedCodes,
          appUncaught, lastApp, generateTimeout, burst>>

(***************************************************************************)
(* Bounds of the model.                                                    *)
(***************************************************************************)
\* notifications and confirmations created in one run
MaxNotifs == 2
\* distinct ids of the records handed to save
MaxSaveIds == 2
\* entries in the records list of a backup file handed to import
MaxImport == 2
\* gateway calls suspended in an await at the same time
MaxInflight == 1
\* modules on a side of the symbol the encoder returns
MaxModules == 3

(***************************************************************************)
(* Constants of the program, in milliseconds.                              *)
(***************************************************************************)
NOTIFICATION_DURATION == 3000
SHOW_DELAY == 100
EXIT_DELAY == 300
CONFIRM_TIMEOUT == 10000

Ticks(ms) == ms \div 100

(***************************************************************************)
(* Keys.  show() and confirm() make the id a Number (Date.now() +          *)
(* Math.random()) and use it as the Map key; the markup they render passes *)
(* the id back inside quotes, as a String.  Map.get compares keys with     *)
(* SameValueZero, under which a String never equals a Number.              *)
(***************************************************************************)
Num(n) == <<"number", n>>
Str(n) == <<"string", n>>

\* `${notificationId}`: the template literal renders the id as text
TemplateLiteral(k) == Str(k[2])

\* The ids handed out so far, and the next one.  Date.now() + Math.random()
\* is taken to be fresh on every call.
Ids == DOMAIN created
NewId == Cardinality(Ids) + 1

\* the notification center's mutable state as one value, so that the
\* methods below compose the way the calls in the code do
NC == [notifications |-> notifications, container |-> container,
       shown |-> shown, timers |-> timers, settled |-> settled,
       uncaught |-> uncaught]

setTimeout(st, cb, n, ms) ==
    [st EXCEPT !.timers = @ \cup {[cb |-> cb, n |-> n, left |-> Ticks(ms)]}]

\* the auto-hide timer of notification n has handle n (handles are positive)
clearTimeout(st, handle) ==
    [st EXCEPT !.timers = {t \in @ : ~(t.cb = "autoHide" /\ t.n = handle)}]

MapSet(m, k, v) == [x \in DOMAIN m \cup {k} |-> IF x = k THEN v ELSE m[x]]
MapDelete(m, k) == [x \in DOMAIN m \ {k} |-> m[x]]

(***************************************************************************)
(* NotificationManager methods, as functions of the center's state.        *)
(***************************************************************************)
\* the default applied only to a missing duration, and never here, where
\* a missing duration is 0
DurationMsNoDefault(duration) == duration

\* duration || this.defaultDuration: null and 0 are both falsy (null is 0 here)
DurationMs(duration) == IF duration = 0 THEN NOTIFICATION_DURATION ELSE duration

\* show(message, type, duration), creating the notification with id Num(n)
show(st, n, duration) ==
    LET appended == [st EXCEPT !.container = @ \cup {n},
                               !.notifications =
                                   MapSet(@, Num(n),
                                          [element |-> n, timeout |-> 0, resolve |-> 0])]
        animated == setTimeout(appended, "addShow", n, SHOW_DELAY)
        scheduled == setTimeout(animated, "autoHide", n, DurationMs(duration))
    IN  IF Num(n) \in DOMAIN scheduled.notifications
        THEN [scheduled EXCEPT !.notifications[Num(n)].timeout = n]
        ELSE scheduled

\* hide(notificationId)
hide(st, k) ==
    IF k \notin DOMAIN st.notifications THEN st
    ELSE LET data == st.notifications[k]
             cleared == IF data.timeout # 0 THEN clearTimeout(st, data.timeout) ELSE st
             faded == [cleared EXCEPT !.shown = @ \ {data.element}]
         IN  setTimeout(faded, "remove", data.element, EXIT_DELAY)

\* element.parentNode.removeChild(element) on an element that has no parent
\* raises, which ends the callback before the Map entry is dropped
removeCallbackUnguarded(st, n) ==
    IF n \in st.container
    THEN [st EXCEPT !.container = @ \ {n},
                    !.notifications = MapDelete(@, Num(n))]
    ELSE [st EXCEPT !.uncaught = TRUE]

\* the callback hide() schedules: detach the element if it is still
\* attached, drop the Map entry
removeCallback(st, n) ==
    LET detached == IF n \in st.container
                    THEN [st EXCEPT !.container = @ \ {n}]
                    ELSE st
    IN  [detached EXCEPT !.notifications = MapDelete(@, Num(n))]

\* resolve(result) of the promise made by confirm(): a promise settles once
resolvePromise(st, p, result) ==
    IF st.settled[p] = "pending"
    THEN [st EXCEPT !.settled[p] = IF result THEN "true" ELSE "false"]
    ELSE st

\* handleConfirm(notificationId, result)
handleConfirm(st, k, result) ==
    IF k \notin DOMAIN st.notifications THEN st
    ELSE LET data == st.notifications[k]
             resolved == IF data.resolve # 0
                         THEN resolvePromise(st, data.resolve, result)
                         ELSE st
         IN  hide(resolved, k)

\* confirm(message, options), creating the confirmation with id Num(n)
confirm(st, n) ==
    LET appended == [st EXCEPT !.container = @ \cup {n},
                               !.settled = MapSet(@, n, "pending"),
                               !.notifications =
                                   MapSet(@, Num(n),
                                          [element |-> n, timeout |-> 0, resolve |-> 0])]
        animated == setTimeout(appended, "addShow", n, SHOW_DELAY)
        stored == IF Num(n) \in DOMAIN animated.notifications
                  THEN [animated EXCEPT !.notifications[Num(n)].resolve = n]
                  ELSE animated
    IN  setTimeout(stored, "autoCancel", n, CONFIRM_TIMEOUT)

\* a 10 s callback that hides the confirmation and forgets its promise
autoCancelHideOnly(st, n) == hide(st, Num(n))

\* the 10 s callback of confirm()
autoCancelCallback(st, n) ==
    IF Num(n) \in DOMAIN st.notifications
    THEN handleConfirm(st, Num(n), FALSE)
    ELSE st

\* a handle that shows the terminal notification and leaves the loading one
loadingFinishNoHide(st, n, terminal) == show(st, terminal, 0)

\* the handle loading() returns: success(message) and error(message)
loadingFinish(st, n, terminal) == show(hide(st, Num(n)), terminal, 0)

SetNC(st) ==
    /\ notifications' = st.notifications
    /\ container' = st.container
    /\ shown' = st.shown
    /\ timers' = st.timers
    /\ settled' = st.settled
    /\ uncaught' = st.uncaught

(***************************************************************************)
(* Operations of the notification center.  A caller holds the ids that     *)
(* success/error/info/warning returned to it and the handles that          *)
(* loading() returned.  The id of a loading notification, of the terminal  *)
(* notification a handle creates and of a confirmation is never returned;  *)
(* it only appears in the markup of the buttons.  clearAll() has no caller *)
(* in the repository and is not an operation here; handle.update(text)     *)
(* only rewrites the message text, which is not part of the state.         *)
(* created[n] is "notify", "loading" (handle not used yet), "resolved"     *)
(* (handle used), "success" / "error" (made by a handle) or "confirm".     *)
(***************************************************************************)
\* durations a caller passes to show(): none (0) or 200 ms
Durations == {0, 200}

Call(op, n, m) == [op |-> op, n |-> n, m |-> m]

NCFrame == UNCHANGED <<dbVars, appVars>>

\* success / error / info / warning (message, duration): show() with a type
Notify(duration) ==
    /\ NewId <= MaxNotifs
    /\ SetNC(show(NC, NewId, duration))
    /\ created' = MapSet(created, NewId, "notify")
    /\ lastCall' = Call("notify", NewId, duration)
    /\ UNCHANGED firstTrigger
    /\ NCFrame

\* loading(message)
StartLoading ==
    /\ NewId <= MaxNotifs
    /\ SetNC(show(NC, NewId, 0))
    /\ created' = MapSet(created, NewId, "loading")
    /\ lastCall' = Call("loading", NewId, 0)
    /\ UNCHANGED firstTrigger
    /\ NCFrame

\* handle.success(message) and handle.error(message) of loading()
LoadingFinish(n, type) ==
    /\ n \in Ids /\ created[n] \in {"loading", "resolved"}
    /\ NewId <= MaxNotifs
    /\ SetNC(loadingFinish(NC, n, NewId))
    /\ created' = MapSet([created EXCEPT ![n] = "resolved"], NewId, type)
    /\ lastCall' = Call("finish", n, NewId)
    /\ UNCHANGED firstTrigger
    /\ NCFrame

\* handle.hide() of loading()
LoadingHide(n) ==
    /\ n \in Ids /\ created[n] \in {"loading", "resolved"}
    /\ SetNC(hide(NC, Num(n)))
    /\ created' = [created EXCEPT ![n] = "resolved"]
    /\ lastCall' = Call("cancel", n, 0)
    /\ UNCHANGED firstTrigger
    /\ NCFrame

\* hide(id) called with an id that was returned to the caller (the registry
\* may hold it, hold it in its exit transition, or hold it no more)
Dismiss(n) ==
    /\ n \in Ids /\ created[n] = "notify"
    /\ SetNC(hide(NC, Num(n)))
    /\ lastCall' = Call("dismiss", n, 0)
    /\ UNCHANGED <<created, firstTrigger>>
    /\ NCFrame

\* click on the close button rendered by show():
\* onclick="notificationManager.hide('${notificationId}')"
ClickClose(n) ==
    /\ n \in container /\ created[n] # "confirm"
    /\ SetNC(hide(NC, TemplateLiteral(Num(n))))
    /\ UNCHANGED <<created, firstTrigger, lastCall>>
    /\ NCFrame

\* confirm(message, options)
Confirm ==
    /\ NewId <= MaxNotifs
    /\ SetNC(confirm(NC, NewId))
    /\ created' = MapSet(created, NewId, "confirm")
    /\ firstTrigger' = MapSet(firstTrigger, NewId, "none")
    /\ lastCall' = Call("confirm", NewId, 0)
    /\ NCFrame

Triggered(n, by) ==
    firstTrigger' = IF firstTrigger[n] = "none"
                    THEN [firstTrigger EXCEPT ![n] = by]
                    ELSE firstTrigger

\* click on a button rendered by confirm():
\* onclick="notificationManager.handleConfirm('${notificationId}', true|false)"
ClickConfirm(n, result) ==
    /\ n \in container /\ created[n] = "confirm"
    /\ SetNC(handleConfirm(NC, TemplateLiteral(Num(n)), result))
    /\ Triggered(n, IF result THEN "yes" ELSE "no")
    /\ UNCHANGED <<created, lastCall>>
    /\ NCFrame

\* what a due timer's callback does
Callback(st, t) ==
    CASE t.cb = "addShow"    -> [st EXCEPT !.shown = @ \cup {t.n}]
      [] t.cb = "autoHide"   -> hide(st, Num(t.n))
      [] t.cb = "remove"     -> removeCallback(st, t.n)
      [] t.cb = "autoCancel" -> autoCancelCallback(st, t.n)

\* the event loop runs a due timer
Fire(t) ==
    /\ t \in timers /\ t.left = 0
    /\ SetNC(Callback([NC EXCEPT !.timers = @ \ {t}], t))
    /\ IF t.cb = "autoCancel" THEN Triggered(t.n, "timeout")
                              ELSE UNCHANGED firstTrigger
    /\ lastCall' = Call(t.cb, t.n, 0)
    /\ UNCHANGED created
    /\ NCFrame

FireDue == \E t \in timers : Fire(t)

\* 100 ms pass; no timer is due
Tick ==
    /\ timers # {}
    /\ \A t \in timers : t.left > 0
    /\ timers' = {[t EXCEPT !.left = @ - 1] : t \in timers}
    /\ lastCall' = Call("tick", 0, 0)
    /\ UNCHANGED <<notifications, container, shown, settled, uncaught, created,
                   firstTrigger>>
    /\ NCFrame

InitNC ==
    /\ notifications = <<>>
    /\ container = {}
    /\ shown = {}
    /\ timers = {}
    /\ settled = <<>>
    /\ uncaught = FALSE
    /\ created = <<>>
    /\ firstTrigger = <<>>
    /\ lastCall = Call("init", 0, 0)

(***************************************************************************)
(* DatabaseManager.  localStorage holds, under the prefix 'pixelQR_', the  *)
(* credential token (github_access_token), the index (saved_codes) and one *)
(* slot per record (qrcode_<id>).  A stored item is text: what             *)
(* JSON.stringify wrote, which JSON.parse reads back, or nothing (getItem  *)
(* returns null).                                                          *)
(***************************************************************************)
\* a name that is undefined: qrData.name.replace(...) raises a TypeError.
\* JSON.stringify leaves such a field out and it reads as undefined again
\* after JSON.parse, so the stored record carries the same value.
Undefined == "undefined"

QRData(id, content, name) ==
    [id |-> id, name |-> name, content |-> content, size |-> 256,
     errorCorrection |-> "M", foregroundColor |-> "#000000",
     backgroundColor |-> "#ffffff", timestamp |-> "2024-01-15T10:30:00.000Z"]

NoRecord == QRData(0, "", Undefined)

\* the records the gateway is asked to save
SaveIds == 1..MaxSaveIds
Records == {QRData(id, "https://example.com", "httpsexamplecom") : id \in SaveIds}
           \cup {QRData(id, "hello", Undefined) : id \in SaveIds}

\* simulatedQRCodes of loadAllQRCodesFromDatabase
simulatedQRCodes ==
    << [id |-> 1001, name |-> "Website_URL", content |-> "https://example.com",
        size |-> 256, errorCorrection |-> "M", foregroundColor |-> "#000000",
        backgroundColor |-> "#ffffff", timestamp |-> "2024-01-15T10:30:00.000Z"],
       [id |-> 1002, name |-> "Contact_Info", content |-> "BEGIN:VCARD...END:VCARD",
        size |-> 256, errorCorrection |-> "H", foregroundColor |-> "#ff0000",
        backgroundColor |-> "#ffffff", timestamp |-> "2024-01-14T15:45:00.000Z"] >>

\* JSON.stringify(value) and JSON.parse(text); getItem of a missing key is null
NoItem == [kind |-> "null", val |-> <<>>]
JSONstringify(v) == [kind |-> "json", val |-> v]
Parses(item) == item.kind = "json"
JSONparse(item) == item.val

\* `${prefix}qrcode_${id}`: the key of a record's slot
SlotKey(id) == <<"pixelQR_qrcode_", id>>

getSlot(ls, id) == IF SlotKey(id) \in DOMAIN ls.slots THEN ls.slots[SlotKey(id)] ELSE NoItem
setSlot(ls, id, v) == [ls EXCEPT !.slots = MapSet(@, SlotKey(id), JSONstringify(v))]
removeSlot(ls, id) == [ls EXCEPT !.slots = MapDelete(@, SlotKey(id))]
setIndex(ls, codes) == [ls EXCEPT !.index = JSONstringify(codes)]

\* savedCodes.findIndex(code => code.id === qrData.id), 0 for -1
FindIndex(codes, id) ==
    IF \E i \in 1..Len(codes) : codes[i].id = id
    THEN CHOOSE i \in 1..Len(codes) :
             /\ codes[i].id = id
             /\ \A j \in 1..(i - 1) : codes[j].id # id
    ELSE 0

\* a filter with the comparison the wrong way round: it keeps the record
\* that was to go and drops the others
RECURSIVE FilterOutInverted(_, _)
FilterOutInverted(codes, id) ==
    IF codes = <<>> THEN <<>>
    ELSE IF Head(codes).id = id
         THEN <<Head(codes)>> \o FilterOutInverted(Tail(codes), id)
         ELSE FilterOutInverted(Tail(codes), id)

\* savedCodes.filter(code => code.id !== qrId)
RECURSIVE FilterOut(_, _)
FilterOut(codes, id) ==
    IF codes = <<>> THEN <<>>
    ELSE IF Head(codes).id # id
         THEN <<Head(codes)>> \o FilterOut(Tail(codes), id)
         ELSE FilterOut(Tail(codes), id)

Result(ls, ret, notes) == [ls |-> ls, ret |-> ret, notes |-> notes]

\* an update of the list that pushes the record without looking for its id
UpsertAlwaysPush(savedCodes, qrData) == Append(savedCodes, qrData)

\* replace the first entry that has the record's id, or push the record
Upsert(savedCodes, qrData) ==
    LET existingIndex == FindIndex(savedCodes, qrData.id)
    IN  IF existingIndex # 0
        THEN [savedCodes EXCEPT ![existingIndex] = qrData]
        ELSE Append(savedCodes, qrData)

\* a save that swallows a raising write and reports success
saveIgnoresRaise(ls, qrData, fault) ==
    IF fault # 0 THEN Result(ls, TRUE, <<"success">>)
    ELSE LET slotted == setSlot(ls, qrData.id, qrData)
             savedCodes == IF Parses(slotted.index) THEN JSONparse(slotted.index) ELSE <<>>
         IN  Result(setIndex(slotted, Upsert(savedCodes, qrData)), TRUE, <<"success">>)

\* saveQRCodeToLocalStorage(qrData).  fault names the localStorage.setItem
\* that raises (quota): 0 none, 1 the slot's, 2 the index's.
saveQRCodeToLocalStorage(ls, qrData, fault) ==
    IF fault = 1 THEN Result(ls, FALSE, <<"error">>)
    ELSE LET slotted == setSlot(ls, qrData.id, qrData)
         IN  IF slotted.index.kind # "null" /\ ~Parses(slotted.index)
             THEN Result(slotted, FALSE, <<"error">>)
             ELSE LET savedCodes == IF slotted.index.kind = "null" THEN <<>>
                                    ELSE JSONparse(slotted.index)
                      updated == Upsert(savedCodes, qrData)
                  IN  IF fault = 2 THEN Result(slotted, FALSE, <<"error">>)
                      ELSE Result(setIndex(slotted, updated), TRUE, <<"success">>)

\* a delete that treats an id without a slot as an error
deleteNotFoundIsError(ls, qrId, fault) ==
    IF SlotKey(qrId) \notin DOMAIN ls.slots THEN Result(ls, FALSE, <<"error">>)
    ELSE LET removed == removeSlot(ls, qrId)
         IN  IF removed.index.kind = "null" THEN Result(removed, TRUE, <<"success">>)
             ELSE Result(setIndex(removed, FilterOut(JSONparse(removed.index), qrId)),
                         TRUE, <<"success">>)

\* deleteQRCodeFromLocalStorage(qrId).  fault 1: the index's setItem raises.
deleteQRCodeFromLocalStorage(ls, qrId, fault) ==
    LET removed == removeSlot(ls, qrId)
    IN  IF removed.index.kind = "null" THEN Result(removed, TRUE, <<"success">>)
        ELSE IF ~Parses(removed.index) THEN Result(removed, FALSE, <<"error">>)
        ELSE IF fault # 0 THEN Result(removed, FALSE, <<"error">>)
        ELSE Result(setIndex(removed, FilterOut(JSONparse(removed.index), qrId)),
                    TRUE, <<"success">>)

\* a count of the index entries instead of the slots
loadAllCountsIndex(ls) ==
    Result(ls, IF ls.index.kind = "json" THEN Len(ls.index.val) ELSE 0, <<>>)

\* loadAllQRCodesFromLocalStorage(): the number of keys that start with
\* the slot prefix
loadAllQRCodesFromLocalStorage(ls) ==
    Result(ls, Cardinality(DOMAIN ls.slots), <<>>)

\* the try block of saveQRCodeToDatabase raises before its await
\* when qrData.name is not a string
RemoteSaveRaises(qrData) == qrData.name = Undefined

\* a catch block that reports the failure and gives up
catchSaveNoFallback(ls, qrData, fault) == Result(ls, FALSE, <<"error">>)

\* a catch block that also gives the token up
catchSaveClearsToken(ls, qrData, fault) ==
    LET local == saveQRCodeToLocalStorage([ls EXCEPT !.token = 0], qrData, fault)
    IN  Result(local.ls, local.ret, <<"error">> \o local.notes)

\* the catch block of saveQRCodeToDatabase: error notification, then the
\* local write, whose result is returned
catchSave(ls, qrData, fault) ==
    LET local == saveQRCodeToLocalStorage(ls, qrData, fault)
    IN  Result(local.ls, local.ret, <<"error">> \o local.notes)

(***************************************************************************)
(* Operations of the gateway.  An async method runs to its await in one    *)
(* step and is then suspended in inflight until its delay (500 ms for      *)
(* connect, 1000 ms for save, 1500 ms for loadAll, 800 ms for delete) has  *)
(* passed.  Calls start at any time, so a suspended call resumes after any *)
(* number of other steps.  The notifications an operation issues through   *)
(* notificationManager are listed in lastOp.notes; what the center does    *)
(* with them is SpecNC.                                                    *)
(***************************************************************************)

\* 'simulated-github-token-' + a random suffix; the code only ever tests
\* whether a token is there
Tokens == {1}
DeleteIds == SaveIds \cup {1001}

Op(op, id, rec, route, fault, ret, notes) ==
    [op |-> op, id |-> id, rec |-> rec, route |-> route, fault |-> fault,
     ret |-> ret, notes |-> notes]
Pending(op, id, rec) == [op |-> op, id |-> id, rec |-> rec]

DBFrame == UNCHANGED <<ncVars, appVars>>

Suspend(o) ==
    /\ Cardinality(inflight) < MaxInflight
    /\ inflight' = inflight \cup {o}
    /\ lastOp' = Op("await", 0, NoRecord, "", 0, FALSE, <<>>)

\* connectToGitHub() up to its await; fault 1: setItem raises and the
\* promise is rejected
Connect(tok, fault) ==
    /\ ACCESS_TOKEN' = tok
    /\ IF fault = 0
       THEN /\ localStorage' = [localStorage EXCEPT !.token = tok]
            /\ Suspend(Pending("connect", 0, NoRecord))
       ELSE /\ lastOp' = Op("connect", 0, NoRecord, "rejected", fault, FALSE, <<>>)
            /\ UNCHANGED <<localStorage, inflight>>
    /\ UNCHANGED savedOk
    /\ DBFrame

\* a disconnect that forgets the token in memory only
DisconnectMemoryOnly ==
    /\ ACCESS_TOKEN' = 0
    /\ lastOp' = Op("disconnect", 0, NoRecord, "local", 0, TRUE, <<"info">>)
    /\ UNCHANGED <<localStorage, inflight, savedOk>>
    /\ DBFrame

\* a disconnect that calls localStorage.clear()
DisconnectClearsAll ==
    /\ ACCESS_TOKEN' = 0
    /\ localStorage' = [token |-> 0, index |-> NoItem, slots |-> <<>>]
    /\ lastOp' = Op("disconnect", 0, NoRecord, "local", 0, TRUE, <<"info">>)
    /\ UNCHANGED <<inflight, savedOk>>
    /\ DBFrame

\* disconnectFromGitHub()
Disconnect ==
    /\ ACCESS_TOKEN' = 0
    /\ localStorage' = [localStorage EXCEPT !.token = 0]
    /\ lastOp' = Op("disconnect", 0, NoRecord, "local", 0, TRUE, <<"info">>)
    /\ UNCHANGED <<inflight, savedOk>>
    /\ DBFrame

Returned(op, id, rec, route, fault, r) ==
    /\ localStorage' = r.ls
    /\ lastOp' = Op(op, id, rec, route, fault, r.ret, r.notes)

\* saveQRCodeToDatabase(qrData) without a token
SaveLocal(qrData, fault) ==
    /\ ACCESS_TOKEN = 0
    /\ LET r == saveQRCodeToLocalStorage(localStorage, qrData, fault)
       IN  /\ Returned("save", qrData.id, qrData, "local", fault, r)
           /\ savedOk' = IF r.ret THEN savedOk \cup {qrData.id} ELSE savedOk
    /\ UNCHANGED <<ACCESS_TOKEN, inflight>>
    /\ DBFrame

\* saveQRCodeToDatabase(qrData) with a token, up to its await
SaveRemote(qrData) ==
    /\ ACCESS_TOKEN # 0
    /\ ~RemoteSaveRaises(qrData)
    /\ Suspend(Pending("save", qrData.id, qrData))
    /\ UNCHANGED <<ACCESS_TOKEN, localStorage, savedOk>>
    /\ DBFrame

\* saveQRCodeToDatabase(qrData) with a token, its try block raising
SaveFallback(qrData, fault) ==
    /\ ACCESS_TOKEN # 0
    /\ RemoteSaveRaises(qrData)
    /\ LET r == catchSave(localStorage, qrData, fault)
       IN  /\ Returned("save", qrData.id, qrData, "fallback", fault, r)
           /\ savedOk' = IF r.ret THEN savedOk \cup {qrData.id} ELSE savedOk
    /\ UNCHANGED <<ACCESS_TOKEN, inflight>>
    /\ DBFrame

\* deleteQRCodeFromDatabase(qrId) without a token
DeleteLocal(qrId, fault) ==
    /\ ACCESS_TOKEN = 0
    /\ Returned("delete", qrId, NoRecord, "local", fault,
                deleteQRCodeFromLocalStorage(localStorage, qrId, fault))
    /\ UNCHANGED <<ACCESS_TOKEN, inflight, savedOk>>
    /\ DBFrame

\* a remote delete that removes the local copy as well
DeleteRemoteAlsoLocal(qrId) ==
    /\ ACCESS_TOKEN # 0
    /\ Suspend(Pending("delete", qrId, NoRecord))
    /\ localStorage' = deleteQRCodeFromLocalStorage(localStorage, qrId, 0).ls
    /\ UNCHANGED <<ACCESS_TOKEN, savedOk>>
    /\ DBFrame

\* deleteQRCodeFromDatabase(qrId) with a token, up to its await
DeleteRemote(qrId) ==
    /\ ACCESS_TOKEN # 0
    /\ Suspend(Pending("delete", qrId, NoRecord))
    /\ UNCHANGED <<ACCESS_TOKEN, localStorage, savedOk>>
    /\ DBFrame

\* loadAllQRCodesFromDatabase() without a token
LoadLocal ==
    /\ ACCESS_TOKEN = 0
    /\ Returned("loadAll", 0, NoRecord, "local", 0,
                loadAllQRCodesFromLocalStorage(localStorage))
    /\ UNCHANGED <<ACCESS_TOKEN, inflight, savedOk>>
    /\ DBFrame

\* loadAllQRCodesFromDatabase() with a token, up to its await
LoadRemote ==
    /\ ACCESS_TOKEN # 0
    /\ Suspend(Pending("loadAll", 0, NoRecord))
    /\ UNCHANGED <<ACCESS_TOKEN, localStorage, savedOk>>
    /\ DBFrame

\* a continuation that looks for the token again and, finding none, only
\* counts the local slots
loadAllResumeIfConnected(ls, fault) ==
    IF ls.token = 0 \/ fault # 0
    THEN Result(ls, Cardinality(DOMAIN ls.slots), <<"error">>)
    ELSE Result(setIndex(setSlot(setSlot(ls, simulatedQRCodes[1].id, simulatedQRCodes[1]),
                                 simulatedQRCodes[2].id, simulatedQRCodes[2]),
                         simulatedQRCodes),
                Len(simulatedQRCodes), <<"success">>)

\* loadAllQRCodesFromDatabase() after its await.  fault names the setItem
\* that raises: 0 none, 1 and 2 a slot's, 3 the index's; the catch block
\* then counts the local slots.
loadAllResume(ls, fault) ==
    LET first == setSlot(ls, simulatedQRCodes[1].id, simulatedQRCodes[1])
        second == setSlot(first, simulatedQRCodes[2].id, simulatedQRCodes[2])
        Caught(at) == LET local == loadAllQRCodesFromLocalStorage(at)
                      IN  Result(at, local.ret, <<"error">> \o local.notes)
    IN  CASE fault = 0 -> Result(setIndex(second, simulatedQRCodes),
                                 Len(simulatedQRCodes), <<"success">>)
          [] fault = 1 -> Caught(ls)
          [] fault = 2 -> Caught(first)
          [] fault = 3 -> Caught(second)

\* the continuation of a suspended call once its delay has passed
Resume(o, fault) ==
    /\ o \in inflight
    /\ inflight' = inflight \ {o}
    /\ CASE o.op = "connect" ->
              /\ fault = 0
              /\ lastOp' = Op("connect", 0, NoRecord, "remote", 0, TRUE, <<"success">>)
              /\ UNCHANGED <<localStorage, savedOk>>
         [] o.op = "save" ->
              /\ fault = 0
              /\ lastOp' = Op("save", o.id, o.rec, "remote", 0, TRUE, <<"success">>)
              /\ savedOk' = savedOk \cup {o.id}
              /\ UNCHANGED localStorage
         [] o.op = "delete" ->
              /\ fault = 0
              /\ lastOp' = Op("delete", o.id, NoRecord, "remote", 0, TRUE, <<"success">>)
              /\ UNCHANGED <<localStorage, savedOk>>
         [] o.op = "loadAll" ->
              /\ Returned("loadAll", 0, NoRecord,
                          IF fault = 0 THEN "remote" ELSE "fallback", fault,
                          loadAllResume(localStorage, fault))
              /\ UNCHANGED savedOk
    /\ UNCHANGED ACCESS_TOKEN
    /\ DBFrame

(***************************************************************************)
(* Backup files.  A file is what JSON.parse makes of its text, or the way  *)
(* reading or parsing it fails; an entry of its records list is an object  *)
(* or null.                                                                *)
(***************************************************************************)
VERSION == "1.0.0"

Entry(qrData) == [kind |-> "object", val |-> qrData]
NullEntry == [kind |-> "null", val |-> NoRecord]

\* kind: "unreadable" (the FileReader fails), "garbage" (JSON.parse
\* raises), "noList" (no qrCodes), "notArray" (qrCodes is no array),
\* "backup" ({version, exportDate, qrCodes: [...]})
Artifact(kind, qrCodes) ==
    [kind |-> kind, version |-> VERSION,
     exportDate |-> "2024-01-16T09:00:00.000Z", qrCodes |-> qrCodes]

\* !qrData.id: the id is missing, 0, null or ''
NoId(qrData) == qrData.id = 0

\* Date.now() + Math.random(): a double just above 2^40 has 12 bits left
\* for the fraction, so calls in the same millisecond can return the same
\* value; nothing compares the result with the ids already in use
FreshIds == {2001, 2002}

RECURSIVE Ascending(_)
Ascending(ids) ==
    IF ids = {} THEN <<>>
    ELSE LET least == CHOOSE i \in ids : \A j \in ids : i <= j
         IN  <<least>> \o Ascending(ids \ {least})

\* exportAllQRCodes(): JSON.parse of every key with the slot prefix.  The
\* engine enumerates the keys in an order of its own; they are listed here
\* by ascending id.
exportAllQRCodes(ls) ==
    LET ids == Ascending({k[2] : k \in DOMAIN ls.slots})
    IN  Artifact("backup", [i \in 1..Len(ids) |-> Entry(JSONparse(getSlot(ls, ids[i])))])

\* the forEach of importQRCodesFromBackup from entry k on.  fresh[k] is
\* the value of Date.now() + Math.random() at entry k; fault names the
\* entry whose setItem raises (0: none).  An entry that is null raises at
\* qrData.id.
RECURSIVE importEach(_, _, _, _, _, _)
importEach(ls, entries, fresh, fault, k, out) ==
    IF entries = <<>> THEN [ls |-> ls, raised |-> FALSE, out |-> out]
    ELSE IF Head(entries).kind = "null" \/ fault = k
         THEN [ls |-> ls, raised |-> TRUE, out |-> out]
         ELSE LET given == Head(entries).val
                  qrData == IF NoId(given) THEN [given EXCEPT !.id = fresh[k]]
                            ELSE given
              IN  importEach(setSlot(ls, qrData.id, qrData), Tail(entries),
                             fresh, fault, k + 1, Append(out, qrData))

\* importQRCodesFromBackup(file) once the file has been read: the store,
\* the count returned, the notification and the records as written
importQRCodesFromBackup(ls, file, fresh, fault) ==
    IF file.kind # "backup"
    THEN [ls |-> ls, ret |-> 0, notes |-> <<"error">>, out |-> <<>>]
    ELSE LET done == importEach(ls, file.qrCodes, fresh, fault, 1, <<>>)
         IN  IF done.raised
             THEN [ls |-> done.ls, ret |-> 0, notes |-> <<"error">>, out |-> done.out]
             ELSE [ls |-> done.ls, ret |-> Len(done.out), notes |-> <<"success">>,
                   out |-> done.out]

\* the files handed to import
ImportEntries ==
    {Entry(QRData(1, "imported", "imported")), Entry(QRData(0, "imported", "imported")),
     NullEntry}
Artifacts ==
    {Artifact(kind, <<>>) : kind \in {"unreadable", "garbage", "noList", "notArray"}}
    \cup {Artifact("backup", q) :
             q \in UNION {[1..n -> ImportEntries] : n \in 0..MaxImport}}

\* the clock values and the raising setItem that a file can meet: one value
\* for each entry without an id, a raise at one of its entries or at none
Draws(file) ==
    {fresh \in [1..MaxImport -> FreshIds] :
        \A k \in 1..MaxImport :
            (k > Len(file.qrCodes) \/ file.qrCodes[k].kind = "null"
                \/ ~NoId(file.qrCodes[k].val)) => fresh[k] = 2001}
Raises(file) == 0..Len(file.qrCodes)

\* a call of exportAll or importAll and its outcome: the file it was given
\* and the file or records it wrote
BackupOp(op, arg, fault, ret, notes, out) ==
    [op |-> op, id |-> 0, rec |-> NoRecord, route |-> "local", fault |-> fault,
     ret |-> ret, notes |-> notes, arg |-> arg, out |-> out]

\* importQRCodesFromBackup(file).  Nothing is touched before the file has
\* been read, so the call is one step: its continuation after the await.
Import(file, fresh, fault) ==
    /\ LET r == importQRCodesFromBackup(localStorage, file, fresh, fault)
       IN  /\ localStorage' = r.ls
           /\ lastOp' = BackupOp("import", file, fault, r.ret, r.notes, r.out)
    /\ UNCHANGED <<ACCESS_TOKEN, inflight, savedOk>>
    /\ DBFrame

\* exportAllQRCodes(): it has no await and runs to its end
Export ==
    /\ LET file == exportAllQRCodes(localStorage)
       IN  lastOp' = BackupOp("export", Artifact("backup", <<>>), 0, TRUE,
                              <<"success">>, file)
    /\ UNCHANGED <<ACCESS_TOKEN, localStorage, inflight, savedOk>>
    /\ DBFrame

\* isGitHubConnected()
isGitHubConnected == ACCESS_TOKEN # 0

\* a start-up that never looks at the stored token
checkGitHubCredentialsIgnoresStore(ls) == 0

\* checkGitHubCredentials(): the token is whatever getItem returns
checkGitHubCredentials(ls) == ls.token

\* the page is loaded again: a new DatabaseManager is constructed over the
\* localStorage the earlier one left, and calls that were suspended are gone
Construct ==
    /\ ACCESS_TOKEN' = checkGitHubCredentials(localStorage)
    /\ inflight' = {}
    /\ lastOp' = Op("construct", 0, NoRecord, "", 0, ACCESS_TOKEN' # 0, <<>>)
    /\ UNCHANGED <<localStorage, savedOk>>
    /\ DBFrame

\* a new gateway over an empty localStorage: checkGitHubCredentials() finds
\* no token
InitDB ==
    /\ ACCESS_TOKEN = 0
    /\ localStorage = [token |-> 0, index |-> NoItem, slots |-> <<>>]
    /\ inflight = {}
    /\ lastOp = Op("init", 0, NoRecord, "", 0, FALSE, <<>>)
    /\ savedOk = {}

(***************************************************************************)
(* QRCodeGenerator: the form, generateQRCode() and its canvas.  A string   *)
(* is a sequence of characters.  The encoder is the qrcode library: it     *)
(* raises or returns a square matrix of dark and light modules.  Sizes and *)
(* module counts are scaled down; what counts is their ratio (a size of 64 *)
(* with a symbol of 69 modules has cells of less than a pixel).            *)
(***************************************************************************)
Whitespace == {" "}

RECURSIVE trimStart(_)
trimStart(str) ==
    IF str # <<>> /\ Head(str) \in Whitespace THEN trimStart(Tail(str)) ELSE str

RECURSIVE trimEnd(_)
trimEnd(str) ==
    IF str # <<>> /\ str[Len(str)] \in Whitespace
    THEN trimEnd(SubSeq(str, 1, Len(str) - 1)) ELSE str

\* a trim that returns its argument
trimNothing(str) == str

\* String.prototype.trim
trim(str) == trimEnd(trimStart(str))

\* the values typed into #content-input
Contents ==
    { <<>>, <<" ">>, <<"h", "i">>, <<" ", "h", "i", "!", " ">>,
      <<"h", "t", "t", "p", "s", ":", "/", "/", "e", "x", "a", "m", "p", "l", "e",
        ".", "c", "o", "m">> }

\* the options of #size-select
Sizes == {2, 4}

\* what qr.make() leaves: isDark(row, col) for a symbol of n modules a
\* side; of the symbols of three modules those with uniform rows
Matrices ==
    [1..2 -> [1..2 -> BOOLEAN]]
    \cup {m \in [1..MaxModules -> [1..MaxModules -> BOOLEAN]] :
             \A r \in 1..MaxModules : \A c \in 1..MaxModules : m[r][c] = m[r][1]}
\* no symbol: addData or make threw
Raised == <<>>

getModuleCount(qr) == Len(qr)
isDark(qr, row, col) == qr[row + 1][col + 1]

\* Math.round(a / n) and Math.ceil(a / n) for a >= 0, n > 0
Round(a, n) == (2 * a + n) \div (2 * n)
Ceil(a, n) == (a + n - 1) \div n

\* the rectangle of ctx.fillRect for module (row, col), cellSize being
\* size / n; x and y are taken from the margin
fillRect(row, col, size, n) ==
    [x |-> Round(col * size, n), y |-> Round(row * size, n), w |-> Ceil(size, n)]

\* the two loops over the modules, module k = row * n + col onwards
RECURSIVE drawModules(_, _, _, _)
drawModules(qr, size, k, calls) ==
    LET n == getModuleCount(qr)
        row == k \div n
        col == k % n
    IN  IF k = n * n THEN calls
        ELSE drawModules(qr, size, k + 1,
                         IF isDark(qr, row, col)
                         THEN Append(calls, fillRect(row, col, size, n))
                         ELSE calls)

NoCanvas == [size |-> 0, fillRects |-> <<>>]
Canvas(qr, size) == [size |-> size, fillRects |-> drawModules(qr, size, 0, <<>>)]

NoCode == [content |-> <<>>, size |-> 0, qr |-> <<>>, canvas |-> NoCanvas]

\* showLoadingState(loading)
showLoadingState(b, loading) ==
    [b EXCEPT !.generate = IF loading THEN "loading" ELSE "idle"]

\* toggleActionButtons(enabled)
toggleActionButtons(b, enabled) == [b EXCEPT !.actions = enabled]

\* a handler without a finally block
finallyNothing(b) == b

\* the finally block of generateQRCode
finallyBlock(b) == showLoadingState(b, FALSE)

\* generateQRCode(): the state of the generator and the notifications
\* issued, encoded being what the encoder does with the content
generateQRCode(st, encoded) ==
    LET content == trim(st.form.content)
    IN  IF content = <<>>
        THEN [st EXCEPT !.notes = <<"error">>]
        ELSE LET loading == showLoadingState(st.buttons, TRUE)
             IN  IF encoded = Raised
                 THEN [st EXCEPT !.buttons = finallyBlock(loading),
                                 !.notes = <<"error">>]
                 ELSE LET canvas == Canvas(encoded, st.form.size)
                      IN  [st EXCEPT
                             !.preview = canvas,
                             !.currentQRCode = [content |-> content, size |-> st.form.size,
                                                qr |-> encoded, canvas |-> canvas],
                             !.buttons = finallyBlock(toggleActionButtons(loading, TRUE)),
                             !.notes = <<"success">>]

AppOp(op, arg, notes) == [op |-> op, arg |-> arg, notes |-> notes]

\* the handler made no call of the gateway
NoCall == Op("none", 0, NoRecord, "", 0, FALSE, <<>>)

GenFrame ==
    /\ lastOp' = NoCall
    /\ UNCHANGED <<ncVars, ACCESS_TOKEN, localStorage, inflight, savedOk,
                   appSavedCodes, appUncaught, generateTimeout, burst>>

\* the user types into #content-input
Type(content) ==
    /\ form' = [form EXCEPT !.content = content]
    /\ lastApp' = AppOp("input", <<>>, <<>>)
    /\ UNCHANGED <<currentQRCode, preview, buttons>>
    /\ GenFrame

\* the user picks a size
SelectSize(size) ==
    /\ form' = [form EXCEPT !.size = size]
    /\ lastApp' = AppOp("input", <<>>, <<>>)
    /\ UNCHANGED <<currentQRCode, preview, buttons>>
    /\ GenFrame

\* generateQRCode(), from the button or from the input timer
Generate(encoded) ==
    /\ LET st == generateQRCode([form |-> form, currentQRCode |-> currentQRCode,
                                 preview |-> preview, buttons |-> buttons,
                                 notes |-> <<>>], encoded)
       IN  /\ form' = st.form
           /\ currentQRCode' = st.currentQRCode
           /\ preview' = st.preview
           /\ buttons' = st.buttons
           /\ lastApp' = AppOp("generate", encoded, st.notes)
    /\ GenFrame

(***************************************************************************)
(* The input handler of #content-input: clearTimeout(generateTimeout),     *)
(* then setTimeout of a callback that runs generateQRCode() if the content *)
(* is not empty after trim.  Time passes in steps of 100 ms, and a timer   *)
(* that is due runs before more time passes.                               *)
(***************************************************************************)
DEBOUNCE_DELAY == 500

\* no input event yet
NoBurst == [since |-> Ticks(DEBOUNCE_DELAY) + 1, fired |-> 0]

\* a handler that cancels nothing
clearNothing(pending) == pending

\* clearTimeout(generateTimeout): the handle is that of the timer started
\* last, the one with the most time left
clearGenerateTimeout(pending) ==
    {left \in pending : \E other \in pending : other > left}

\* generateTimeout = setTimeout(..., 500)
setGenerateTimeout(pending) == pending \cup {Ticks(DEBOUNCE_DELAY)}

DebounceFrame ==
    UNCHANGED <<ncVars, ACCESS_TOKEN, localStorage, inflight, savedOk,
                appSavedCodes, appUncaught>>

\* an input event on #content-input that leaves content in the field
Input(content) ==
    /\ form' = [form EXCEPT !.content = content]
    /\ generateTimeout' = setGenerateTimeout(clearGenerateTimeout(generateTimeout))
    /\ burst' = [since |-> 0, fired |-> 0]
    /\ lastApp' = AppOp("input", <<>>, <<>>)
    /\ lastOp' = NoCall
    /\ UNCHANGED <<currentQRCode, preview, buttons>>
    /\ DebounceFrame

\* 100 ms pass; no timer is due
Elapse ==
    /\ \A left \in generateTimeout : left > 0
    /\ generateTimeout # {} \/ burst.since <= Ticks(DEBOUNCE_DELAY)
    /\ generateTimeout' = {left - 1 : left \in generateTimeout}
    /\ burst' = [burst EXCEPT !.since = IF @ <= Ticks(DEBOUNCE_DELAY) THEN @ + 1 ELSE @]
    /\ lastApp' = AppOp("elapse", <<>>, <<>>)
    /\ lastOp' = NoCall
    /\ UNCHANGED <<form, currentQRCode, preview, buttons>>
    /\ DebounceFrame

\* the timer's callback, encoded being what the encoder does if it is asked
TimerFires(encoded) ==
    /\ 0 \in generateTimeout
    /\ generateTimeout' = generateTimeout \ {0}
    /\ IF trim(form.content) # <<>>
       THEN LET st == generateQRCode([form |-> form, currentQRCode |-> currentQRCode,
                                      preview |-> preview, buttons |-> buttons,
                                      notes |-> <<>>], encoded)
            IN  /\ form' = st.form
                /\ currentQRCode' = st.currentQRCode
                /\ preview' = st.preview
                /\ buttons' = st.buttons
                /\ burst' = [burst EXCEPT !.fired = @ + 1]
                /\ lastApp' = AppOp("timer", encoded, st.notes)
       ELSE /\ encoded = Raised
            /\ lastApp' = AppOp("timer", Raised, <<>>)
            /\ UNCHANGED <<form, currentQRCode, preview, buttons, burst>>
    /\ lastOp' = NoCall
    /\ DebounceFrame

\* the page as loaded: an empty form, no code, the action buttons disabled
InitApp ==
    /\ form = [content |-> <<>>, size |-> 4]
    /\ currentQRCode = NoCode
    /\ preview = NoCanvas
    /\ buttons = [actions |-> FALSE, generate |-> "idle"]
    /\ appSavedCodes = <<>>
    /\ appUncaught = FALSE
    /\ lastApp = AppOp("init", <<>>, <<>>)
    /\ generateTimeout = {}
    /\ burst = NoBurst

Init == InitNC /\ InitDB /\ InitApp

(***************************************************************************)
(* QRCodeGenerator: the saved list.  this.savedCodes is appSavedCodes; the *)
(* handlers call the gateway and continue when its promise settles.  A     *)
(* page load constructs the application over whatever localStorage holds.  *)
(***************************************************************************)
maxLength == 30

Letters ==
    {"a", "b", "c", "d", "e", "f", "g", "h", "i", "j", "k", "l", "m",
     "n", "o", "p", "q", "r", "s", "t", "u", "v", "w", "x", "y", "z",
     "A", "B", "C", "D", "E", "F", "G", "H", "I", "J", "K", "L", "M",
     "N", "O", "P", "Q", "R", "S", "T", "U", "V", "W", "X", "Y", "Z"}
Digits == {"0", "1", "2", "3", "4", "5", "6", "7", "8", "9"}

\* the class \w of a regular expression
WordChars == Letters \cup Digits \cup {"_"}

\* name.replace(/[^\w\s-]/g, '')
Kept(ch) == ch \in WordChars \cup Whitespace \cup {"-"}
removeOthers(str) == SelectSeq(str, Kept)

\* name.replace(/\s+/g, '_')
RECURSIVE underscoreSpaces(_)
underscoreSpaces(str) ==
    IF str = <<>> THEN <<>>
    ELSE IF Head(str) \in Whitespace
         THEN <<"_">> \o underscoreSpaces(trimStart(str))
         ELSE <<Head(str)>> \o underscoreSpaces(Tail(str))

\* generateQRName(content), now being Date.now()
generateQRName(content, now) ==
    LET name == IF Len(content) > maxLength
                THEN SubSeq(content, 1, maxLength) \o <<".", ".", ".">>
                ELSE content
        cleaned == underscoreSpaces(removeOthers(name))
    IN  IF cleaned # <<>> THEN cleaned ELSE <<"QR_Code_", ToString(now)>>

\* new Date(timestamp) of the timestamps in use, as a number
DateOf(timestamp) ==
    CASE timestamp = "2024-01-15T10:30:00.000Z" -> 2
      [] timestamp = "2024-01-14T15:45:00.000Z" -> 1

\* codes.sort((a, b) => new Date(b.timestamp) - new Date(a.timestamp)): the
\* sort is stable and works on the array itself
RECURSIVE sortByDate(_)
sortByDate(codes) ==
    IF codes = <<>> THEN <<>>
    ELSE LET newest == CHOOSE i \in 1..Len(codes) :
                 /\ \A j \in 1..Len(codes) :
                        DateOf(codes[j].timestamp) <= DateOf(codes[i].timestamp)
                 /\ \A j \in 1..(i - 1) :
                        DateOf(codes[j].timestamp) < DateOf(codes[i].timestamp)
         IN  <<codes[newest]>>
             \o sortByDate(SubSeq(codes, 1, newest - 1)
                           \o SubSeq(codes, newest + 1, Len(codes)))

\* updateSavedCodesList(): of the list it leaves the order changed
updateSavedCodesList(codes) == sortByDate(codes)

\* an index that JSON.parse rejects
Garbage == [kind |-> "garbage", val |-> <<>>]

\* loadSavedCodes(): the list afterwards, and whether JSON.parse raised
loadSavedCodes(ls, codes) ==
    IF ls.index.kind = "null" THEN [codes |-> codes, raised |-> FALSE]
    ELSE IF ~Parses(ls.index) THEN [codes |-> codes, raised |-> TRUE]
    ELSE [codes |-> updateSavedCodesList(JSONparse(ls.index)), raised |-> FALSE]

\* the qrData of saveQRCode() and syncCurrentCode(), now being Date.now()
NewQRData(code, now) ==
    [QRData(now, code.content, generateQRName(code.content, now))
        EXCEPT !.size = code.size]

\* what the user does with the confirmation: a click on Delete, a click on
\* Cancel, or nothing
Answers == {"yes", "no", "none"}

\* the value the promise of notificationManager.confirm() is settled with
\* when the user has answered and the 10 s timer has run
confirmResult(answer) ==
    LET fresh == [notifications |-> <<>>, container |-> {}, shown |-> {},
                  timers |-> {}, settled |-> <<>>, uncaught |-> FALSE]
        asked == confirm(fresh, 1)
        answered == IF answer = "none" THEN asked
                    ELSE handleConfirm(asked, TemplateLiteral(Num(1)), answer = "yes")
    IN  autoCancelCallback(answered, 1).settled[1] = "true"

\* what the promise of notificationManager.confirm() can be settled with:
\* by a click on one of its buttons or by its 10 s timer
ConfirmResults ==
    LET fresh == [notifications |-> <<>>, container |-> {}, shown |-> {},
                  timers |-> {}, settled |-> <<>>, uncaught |-> FALSE]
        asked == confirm(fresh, 1)
        ends == {handleConfirm(asked, TemplateLiteral(Num(1)), TRUE),
                 handleConfirm(asked, TemplateLiteral(Num(1)), FALSE),
                 autoCancelCallback(asked, 1)}
    IN  {st.settled[1] = "true" : st \in {e \in ends : e.settled[1] # "pending"}}

\* the records the saved list is allowed to hold
MaxSaved == 2

Loaded == lastApp.op # "closed"

AppFrame == UNCHANGED <<ncVars, form, currentQRCode, preview, buttons, generateTimeout, burst>>

\* the page is loaded: new QRCodeGenerator() with its new DatabaseManager,
\* then init(): bindEvents(), loadSavedCodes(), updateDatabaseStatus() and a
\* notification.  A raise in loadSavedCodes() leaves the constructor.
Startup ==
    /\ ACCESS_TOKEN' = checkGitHubCredentials(localStorage)
    /\ inflight' = {}
    /\ lastOp' = Op("construct", 0, NoRecord, "", 0, ACCESS_TOKEN' # 0, <<>>)
    /\ LET loaded == loadSavedCodes(localStorage, <<>>)
       IN  /\ appSavedCodes' = loaded.codes
           /\ appUncaught' = loaded.raised
           /\ lastApp' = AppOp("startup", <<>>,
                               IF loaded.raised THEN <<>> ELSE <<"success">>)
    /\ form' = [content |-> <<>>, size |-> 4]
    /\ currentQRCode' = NoCode
    /\ preview' = NoCanvas
    /\ buttons' = [actions |-> FALSE, generate |-> "idle"]
    /\ generateTimeout' = {}
    /\ burst' = NoBurst
    /\ UNCHANGED <<localStorage, savedOk, ncVars>>

\* saveQRCode(): the then-callback pushes the record whatever the gateway
\* returned
AppSave(now, fault) ==
    /\ Loaded
    /\ Len(appSavedCodes) < MaxSaved
    /\ IF currentQRCode = NoCode
       THEN /\ lastApp' = AppOp("save", NoRecord, <<"error">>)
            /\ lastOp' = NoCall
            /\ UNCHANGED <<ACCESS_TOKEN, localStorage, inflight, savedOk, appSavedCodes>>
       ELSE LET qrData == NewQRData(currentQRCode, now)
            IN  IF ACCESS_TOKEN = 0
                THEN LET r == saveQRCodeToLocalStorage(localStorage, qrData, fault)
                     IN  /\ Returned("save", now, qrData, "local", fault, r)
                         /\ savedOk' = IF r.ret THEN savedOk \cup {now} ELSE savedOk
                         /\ appSavedCodes' =
                                updateSavedCodesList(Append(appSavedCodes, qrData))
                         /\ lastApp' = AppOp("save", qrData, r.notes \o <<"success">>)
                         /\ UNCHANGED <<ACCESS_TOKEN, inflight>>
                ELSE /\ fault = 0
                     /\ Suspend(Pending("appSave", now, qrData))
                     /\ lastApp' = AppOp("await", NoRecord, <<>>)
                     /\ UNCHANGED <<ACCESS_TOKEN, localStorage, savedOk, appSavedCodes>>
    /\ UNCHANGED appUncaught
    /\ AppFrame

\* syncCurrentCode()
AppSync(now, fault) ==
    /\ Loaded
    /\ IF currentQRCode = NoCode
       THEN /\ lastApp' = AppOp("sync", NoRecord, <<"error">>)
            /\ lastOp' = NoCall
            /\ UNCHANGED <<ACCESS_TOKEN, localStorage, inflight, savedOk>>
       ELSE LET qrData == NewQRData(currentQRCode, now)
            IN  IF ACCESS_TOKEN = 0
                THEN LET r == saveQRCodeToLocalStorage(localStorage, qrData, fault)
                     IN  /\ Returned("save", now, qrData, "local", fault, r)
                         /\ savedOk' = IF r.ret THEN savedOk \cup {now} ELSE savedOk
                         /\ lastApp' = AppOp("sync", qrData, r.notes \o <<"success">>)
                         /\ UNCHANGED <<ACCESS_TOKEN, inflight>>
                ELSE /\ fault = 0
                     /\ Suspend(Pending("appSync", now, qrData))
                     /\ lastApp' = AppOp("await", NoRecord, <<>>)
                     /\ UNCHANGED <<ACCESS_TOKEN, localStorage, savedOk>>
    /\ UNCHANGED <<appSavedCodes, appUncaught>>
    /\ AppFrame

\* deleteQRCode(qrId), from the confirmation to the end of its
\* then-callback; fault 1: the setItem of the index raises.  lastApp.arg
\* holds the id and, as name, the user's answer.
AppDelete(qrId, answer, fault) ==
    /\ Loaded
    /\ LET result == confirmResult(answer)
           asked == [NoRecord EXCEPT !.id = qrId, !.name = answer]
           index == FindIndex(appSavedCodes, qrId)
           spliced == SubSeq(appSavedCodes, 1, index - 1)
                      \o SubSeq(appSavedCodes, index + 1, Len(appSavedCodes))
       IN  IF ~result
           THEN /\ fault = 0
                /\ lastApp' = AppOp("delete", asked, <<>>)
                /\ UNCHANGED <<localStorage, appSavedCodes, appUncaught>>
           ELSE IF index = 0
           THEN /\ fault = 0
                /\ lastApp' = AppOp("delete", asked, <<"error">>)
                /\ UNCHANGED <<localStorage, appSavedCodes, appUncaught>>
           ELSE IF fault # 0
           THEN /\ appSavedCodes' = spliced
                /\ appUncaught' = TRUE
                /\ lastApp' = AppOp("delete", asked, <<>>)
                /\ UNCHANGED localStorage
           ELSE /\ appSavedCodes' = updateSavedCodesList(spliced)
                /\ localStorage' = setIndex(localStorage, spliced)
                /\ lastApp' = AppOp("delete", asked, <<"success">>)
                /\ UNCHANGED appUncaught
    /\ lastOp' = NoCall
    /\ UNCHANGED <<ACCESS_TOKEN, inflight, savedOk>>
    /\ AppFrame

\* the rest of loadAllFromDatabase() once the gateway has returned count
afterLoadAll(r, codes) ==
    IF r.ret > 0
    THEN LET loaded == loadSavedCodes(r.ls, codes)
         IN  [codes |-> loaded.codes,
              notes |-> r.notes \o (IF loaded.raised THEN <<"error">> ELSE <<"success">>)]
    ELSE [codes |-> codes, notes |-> r.notes \o <<"info">>]

\* loadAllFromDatabase()
AppLoadAll ==
    /\ Loaded
    /\ IF ACCESS_TOKEN = 0
       THEN LET r == loadAllQRCodesFromLocalStorage(localStorage)
                after == afterLoadAll(r, appSavedCodes)
            IN  /\ Returned("loadAll", 0, NoRecord, "local", 0, r)
                /\ appSavedCodes' = after.codes
                /\ lastApp' = AppOp("loadAll", NoRecord, after.notes)
                /\ UNCHANGED inflight
       ELSE /\ Suspend(Pending("appLoadAll", 0, NoRecord))
            /\ lastApp' = AppOp("await", NoRecord, <<>>)
            /\ UNCHANGED <<localStorage, appSavedCodes>>
    /\ UNCHANGED <<ACCESS_TOKEN, savedOk, appUncaught>>
    /\ AppFrame

\* connectToDatabase(); fault 1: the setItem of the token raises, the
\* gateway's promise is rejected and the catch block reports it
AppConnect(tok, fault) ==
    /\ Loaded
    /\ ACCESS_TOKEN' = tok
    /\ IF fault = 0
       THEN /\ localStorage' = [localStorage EXCEPT !.token = tok]
            /\ Suspend(Pending("appConnect", 0, NoRecord))
            /\ lastApp' = AppOp("await", NoRecord, <<>>)
       ELSE /\ lastOp' = Op("connect", 0, NoRecord, "rejected", fault, FALSE, <<>>)
            /\ lastApp' = AppOp("connect", NoRecord, <<"error">>)
            /\ UNCHANGED <<localStorage, inflight>>
    /\ UNCHANGED <<savedOk, appSavedCodes, appUncaught>>
    /\ AppFrame

\* the onclick of the connect button while it reads 'Disconnect'
AppDisconnect ==
    /\ Loaded
    /\ ACCESS_TOKEN' = 0
    /\ localStorage' = [localStorage EXCEPT !.token = 0]
    /\ lastOp' = Op("disconnect", 0, NoRecord, "local", 0, TRUE, <<"info">>)
    /\ lastApp' = AppOp("disconnect", NoRecord, <<"info", "info">>)
    /\ UNCHANGED <<inflight, savedOk, appSavedCodes, appUncaught>>
    /\ AppFrame

\* a suspended handler goes on after the gateway's await
AppResume(o, fault) ==
    /\ o \in inflight
    /\ inflight' = inflight \ {o}
    /\ CASE o.op = "appConnect" ->
              /\ fault = 0
              /\ lastOp' = Op("connect", 0, NoRecord, "remote", 0, TRUE, <<"success">>)
              /\ lastApp' = AppOp("connect", NoRecord, <<"success", "success">>)
              /\ UNCHANGED <<localStorage, savedOk, appSavedCodes>>
         [] o.op = "appSave" ->
              /\ fault = 0
              /\ lastOp' = Op("save", o.id, o.rec, "remote", 0, TRUE, <<"success">>)
              /\ savedOk' = savedOk \cup {o.id}
              /\ appSavedCodes' = updateSavedCodesList(Append(appSavedCodes, o.rec))
              /\ lastApp' = AppOp("save", o.rec, <<"success", "success">>)
              /\ UNCHANGED localStorage
         [] o.op = "appSync" ->
              /\ fault = 0
              /\ lastOp' = Op("save", o.id, o.rec, "remote", 0, TRUE, <<"success">>)
              /\ savedOk' = savedOk \cup {o.id}
              /\ lastApp' = AppOp("sync", o.rec, <<"success", "success">>)
              /\ UNCHANGED <<localStorage, appSavedCodes>>
         [] o.op = "appLoadAll" ->
              LET r == loadAllResume(localStorage, fault)
                  after == afterLoadAll(r, appSavedCodes)
              IN  /\ Returned("loadAll", 0, NoRecord,
                              IF fault = 0 THEN "remote" ELSE "fallback", fault, r)
                  /\ appSavedCodes' = after.codes
                  /\ lastApp' = AppOp("loadAll", NoRecord, after.notes)
                  /\ UNCHANGED savedOk
    /\ UNCHANGED <<ACCESS_TOKEN, appUncaught>>
    /\ AppFrame

\* the change handler of #import-file (DatabaseUI): importQRCodesFromBackup
\* and, for a count above 0, loadSavedCodes() outside any try block
ImportChange(file, fresh, fault) ==
    /\ Loaded
    /\ LET r == importQRCodesFromBackup(localStorage, file, fresh, fault)
           loaded == IF r.ret > 0 THEN loadSavedCodes(r.ls, appSavedCodes)
                     ELSE [codes |-> appSavedCodes, raised |-> FALSE]
       IN  /\ localStorage' = r.ls
           /\ lastOp' = BackupOp("import", file, fault, r.ret, r.notes, r.out)
           /\ appSavedCodes' = loaded.codes
           /\ appUncaught' = (appUncaught \/ loaded.raised)
           /\ lastApp' = AppOp("importAll", NoRecord, r.notes)
    /\ UNCHANGED <<ACCESS_TOKEN, inflight, savedOk>>
    /\ AppFrame

\* the click handler of #export-all-btn (DatabaseUI)
ExportClick ==
    /\ Loaded
    /\ LET file == exportAllQRCodes(localStorage)
       IN  lastOp' = BackupOp("export", Artifact("backup", <<>>), 0, TRUE,
                              <<"success">>, file)
    /\ lastApp' = AppOp("exportAll", NoRecord, <<"success">>)
    /\ UNCHANGED <<ACCESS_TOKEN, localStorage, inflight, savedOk,
                   appSavedCodes, appUncaught>>
    /\ AppFrame

NextGen ==
    \/ \E content \in Contents : Type(content)
    \/ \E size \in Sizes : SelectSize(size)
    \/ \E encoded \in Matrices \cup {Raised} : Generate(encoded)

SpecGen == Init /\ [][NextGen]_vars

(***************************************************************************)
(* ExportManager.  A download leaves the page's state alone; what is       *)
(* modelled is the notification.  raises: the try block of the renderer    *)
(* raises (toDataURL on a canvas it may not read, a missing jsPDF).        *)
(***************************************************************************)
Formats == {"png", "svg", "pdf", "gif"}

\* downloadQRCode(), exportAsSVG() and exportAsPDF()
downloadQRCode(code, raises) ==
    IF code = NoCode THEN <<"error">>
    ELSE IF raises THEN <<"error">> ELSE <<"success">>

\* an export that does not look at currentQRCode first
exportQRCodeUnguarded(code, format, raises) ==
    IF format \in {"png", "svg", "pdf"} THEN <<"success">> ELSE <<"error">>

\* exportQRCode(), format being the value of #export-format-select
exportQRCode(code, format, raises) ==
    IF code = NoCode THEN <<"error">>
    ELSE IF format \in {"png", "svg", "pdf"} THEN downloadQRCode(code, raises)
    ELSE <<"error">>

\* click on #export-btn
AppExport(format, raises) ==
    /\ Loaded
    /\ lastApp' = AppOp("export", NoRecord, exportQRCode(currentQRCode, format, raises))
    /\ lastOp' = NoCall
    /\ UNCHANGED <<ACCESS_TOKEN, localStorage, inflight, savedOk, appSavedCodes, appUncaught>>
    /\ AppFrame

\* click on #download-btn
AppDownload(raises) ==
    /\ Loaded
    /\ lastApp' = AppOp("download", NoRecord, downloadQRCode(currentQRCode, raises))
    /\ lastOp' = NoCall
    /\ UNCHANGED <<ACCESS_TOKEN, localStorage, inflight, savedOk, appSavedCodes, appUncaught>>
    /\ AppFrame

\* the contents typed before a save
ExampleCom ==
    <<"h", "t", "t", "p", "s", ":", "/", "/", "e", "x", "a", "m", "p", "l", "e",
      ".", "c", "o", "m">>
AppContents == {ExampleCom}

\* the symbol the encoder returns for them
AppMatrices == {[row \in 1..2 |-> [col \in 1..2 |-> row = col]]}

\* a record saved by an earlier visit
Earlier == [QRData(1, ExampleCom, generateQRName(ExampleCom, 1)) EXCEPT !.size = 4]

\* what localStorage holds when the page is opened: nothing, an index and
\* the slot of one record, or an index that is not JSON
Stores ==
    {[token |-> 0, index |-> NoItem, slots |-> <<>>],
     setIndex(setSlot([token |-> 0, index |-> NoItem, slots |-> <<>>], 1, Earlier),
              <<Earlier>>),
     [token |-> 0, index |-> Garbage, slots |-> <<>>]}

\* the page is not open yet
InitClosed ==
    /\ InitNC
    /\ ACCESS_TOKEN = 0
    /\ localStorage \in Stores
    /\ inflight = {}
    /\ lastOp = Op("init", 0, NoRecord, "", 0, FALSE, <<>>)
    /\ savedOk = {}
    /\ form = [content |-> <<>>, size |-> 4]
    /\ currentQRCode = NoCode
    /\ preview = NoCanvas
    /\ buttons = [actions |-> FALSE, generate |-> "idle"]
    /\ appSavedCodes = <<>>
    /\ appUncaught = FALSE
    /\ lastApp = AppOp("closed", <<>>, <<>>)
    /\ generateTimeout = {}
    /\ burst = NoBurst

\* the files handed to the import
AppImports ==
    {Artifact("garbage", <<>>),
     Artifact("backup", <<Entry(Earlier)>>)}

NextApp ==
    \/ Startup
    \/ Loaded /\ \E content \in AppContents : Type(content)
    \/ Loaded /\ \E encoded \in AppMatrices : Generate(encoded)
    \/ \E now \in SaveIds, fault \in {0, 2} : AppSave(now, fault)
    \/ AppSync(1, 0)
    \/ \E answer \in Answers, fault \in 0..1 : AppDelete(1, answer, fault)
    \/ AppLoadAll
    \/ \E tok \in Tokens, fault \in 0..1 : AppConnect(tok, fault)
    \/ AppDisconnect
    \/ \E o \in inflight : AppResume(o, 0)
    \/ \E file \in AppImports : \E fresh \in Draws(file), fault \in Raises(file) :
          ImportChange(file, fresh, fault)
    \/ ExportClick
    \/ Loaded /\ DeleteLocal(1, 0)

SpecApp == InitClosed /\ [][NextApp]_vars

\* one visit of the page over an empty store: the actions on the artifact
NextActions ==
    \/ \E content \in AppContents \cup {<<" ">>} : Type(content)
    \/ \E encoded \in AppMatrices \cup {Raised} : Generate(encoded)
    \/ \E now \in SaveIds : AppSave(now, 0)
    \/ AppSync(1, 0)
    \/ \E format \in Formats, raises \in BOOLEAN : AppExport(format, raises)
    \/ \E raises \in BOOLEAN : AppDownload(raises)
    \/ \E tok \in Tokens : AppConnect(tok, 0)
    \/ AppDisconnect
    \/ \E o \in inflight : AppResume(o, 0)

SpecActions == Init /\ [][NextActions]_vars

\* typing with pauses of any length, and the generate button
NextDebounce ==
    \/ \E content \in {<<>>, <<" ">>, <<"h", "i">>, <<"h", "i", "!">>} : Input(content)
    \/ Elapse
    \/ \E encoded \in AppMatrices \cup {Raised} : TimerFires(encoded)
    \/ \E encoded \in AppMatrices : Generate(encoded)

SpecDebounce == Init /\ [][NextDebounce]_vars

NextDB ==
    \/ \E tok \in Tokens, fault \in 0..1 : Connect(tok, fault)
    \/ Disconnect
    \/ \E qrData \in Records, fault \in 0..2 : SaveLocal(qrData, fault)
    \/ \E qrData \in Records : SaveRemote(qrData)
    \/ \E qrData \in Records, fault \in 0..2 : SaveFallback(qrData, fault)
    \/ \E qrId \in DeleteIds, fault \in 0..1 : DeleteLocal(qrId, fault)
    \/ \E qrId \in DeleteIds : DeleteRemote(qrId)
    \/ LoadLocal
    \/ LoadRemote
    \/ \E o \in inflight, fault \in 0..3 : Resume(o, fault)
    \/ Construct

SpecDB == Init /\ [][NextDB]_vars

\* the gateway with its backup operations, over one record id; of the
\* raising writes of connect and loadAll, which SpecDB goes through one by
\* one, only the last write of loadAll is kept
BackupRecords ==
    {QRData(1, "https://example.com", "httpsexamplecom"), QRData(1, "hello", Undefined)}
BackupDeleteIds == {1}

NextBackup ==
    \/ \E tok \in Tokens : Connect(tok, 0)
    \/ Disconnect
    \/ \E qrData \in BackupRecords, fault \in 0..2 : SaveLocal(qrData, fault)
    \/ \E qrData \in BackupRecords : SaveRemote(qrData)
    \/ \E qrData \in BackupRecords, fault \in 0..2 : SaveFallback(qrData, fault)
    \/ \E qrId \in BackupDeleteIds, fault \in 0..1 : DeleteLocal(qrId, fault)
    \/ \E qrId \in BackupDeleteIds : DeleteRemote(qrId)
    \/ LoadLocal
    \/ LoadRemote
    \/ \E o \in inflight, fault \in {0, 3} : Resume(o, fault)
    \/ Construct
    \/ \E file \in Artifacts : \E fresh \in Draws(file), fault \in Raises(file) :
          Import(file, fresh, fault)
    \/ Export

SpecBackup == Init /\ [][NextBackup]_vars

NextNC ==
    \/ \E d \in Durations : Notify(d)
    \/ StartLoading
    \/ \E n \in Ids, type \in {"success", "error"} : LoadingFinish(n, type)
    \/ \E n \in Ids : LoadingHide(n)
    \/ \E n \in Ids : Dismiss(n)
    \/ \E n \in container : ClickClose(n)
    \/ Confirm
    \/ \E n \in container, result \in BOOLEAN : ClickConfirm(n, result)
    \/ FireDue
    \/ Tick

SpecNC == Init /\ [][NextNC]_vars

\* time passes and the event loop runs every due timer
FairSpecNC == SpecNC /\ WF_vars(Tick) /\ WF_vars(FireDue)

(***************************************************************************)
(* What a state of the center leads to when nothing more is asked of it:   *)
(* the changes of the registry and of the attached elements that the       *)
(* pending timers bring about, each with the time at which it happens.     *)
(***************************************************************************)
View(st) == [registry |-> DOMAIN st.notifications, attached |-> st.container,
             settled |-> st.settled, uncaught |-> st.uncaught]

MinLeft(ts) == CHOOSE m \in {t.left : t \in ts} : \A t \in ts : m <= t.left

RECURSIVE Outcome(_, _)
Outcome(st, now) ==
    IF st.timers = {} THEN {[at |-> -1, view |-> View(st)]}   \* the end state
    ELSE LET m == MinLeft(st.timers)
             t == CHOOSE x \in st.timers : x.left = m
             later == [st EXCEPT !.timers = {[x EXCEPT !.left = @ - m] : x \in @ \ {t}}]
             after == Callback(later, t)
         IN  (IF View(after) # View(st)
              THEN {[at |-> now + m, view |-> View(after)]}
              ELSE {})
             \cup Outcome(after, now + m)

Keys == {Num(n) : n \in 0..MaxNotifs} \cup {Str(n) : n \in 0..MaxNotifs}

Exiting(st, n) == \E t \in st.timers : t.cb = "remove" /\ t.n = n
AutoHiding(st, n) == \E t \in st.timers : t.cb = "autoHide" /\ t.n = n
Registered(n) == Num(n) \in DOMAIN notifications
Confirmations == {n \in Ids : created[n] = "confirm"}
Resolved(n) == n \in DOMAIN settled /\ settled[n] # "pending"

(***************************************************************************)
(* Claims about the notification center.                                   *)
(***************************************************************************)
\* C1: if the confirm button is the first trigger of a confirmation its
\* promise is resolved to true by that click, and if the cancel button is
\* the first trigger it is resolved to false by that click.
C1_ClickResolves ==
    \A n \in Confirmations :
        /\ firstTrigger[n] = "yes" => settled[n] = "true"
        /\ firstTrigger[n] = "no" => settled[n] = "false"

\* the value a trigger asks the promise to take
TriggerValue(by) == IF by = "yes" THEN "true" ELSE "false"

\* C2: once a first trigger (confirm click, cancel click or the 10 s
\* timeout) has fired on a confirmation, its promise holds that trigger's
\* value after every later step, and an entry that has left the registry
\* never comes back.
C2_FirstTriggerFixesResult ==
    [][\A n \in Confirmations :
          firstTrigger[n] # "none" =>
              /\ settled'[n] = TriggerValue(firstTrigger[n])
              /\ (~Registered(n) => ~Registered(n)')]_vars

\* C3: every confirmation is eventually resolved and afterwards out of the
\* registry; while it is pending its 10 s timer is pending, and when the
\* timeout is what resolves it the result is false.
C3_ConfirmEventuallyResolves ==
    /\ \A n \in 1..MaxNotifs :
          (n \in Confirmations) ~> (Resolved(n) /\ ~Registered(n))
    /\ [](\A n \in Confirmations :
             /\ settled[n] = "pending" =>
                   \E t \in timers : t.cb = "autoCancel" /\ t.n = n
                                       /\ t.left <= Ticks(CONFIRM_TIMEOUT)
             /\ lastCall = Call("autoCancel", n, 0) => settled[n] = "false")

C3_Witness ==
    \E n \in Confirmations :
        /\ lastCall = Call("remove", n, 0)
        /\ firstTrigger[n] = "timeout"
        /\ settled[n] = "false"
        /\ ~Registered(n)

\* C4: hide(id) is idempotent.  For an id the registry does not hold it
\* changes nothing; a second call right after the first, or later while
\* the first one's exit transition runs, leads to the same registry and
\* the same attached elements at the same times as the first call alone,
\* and to no uncaught error.
C4_DismissIdempotent ==
    \A k \in Keys :
        /\ k \notin DOMAIN notifications => hide(NC, k) = NC
        /\ k \in DOMAIN notifications =>
              /\ Outcome(hide(hide(NC, k), k), 0) = Outcome(hide(NC, k), 0)
              /\ Exiting(NC, k[2]) => Outcome(hide(NC, k), 0) = Outcome(NC, 0)
        /\ ~uncaught

\* a notification dismissed a second time while its exit transition runs
C4_Witness ==
    \E n \in Ids :
        /\ lastCall = Call("dismiss", n, 0)
        /\ Registered(n)
        /\ \E t \in timers : t.cb = "remove" /\ t.n = n /\ t.left < Ticks(EXIT_DELAY)
        /\ \E t \in timers : t.cb = "remove" /\ t.n = n /\ t.left = Ticks(EXIT_DELAY)

\* C5: every notification made by show() eventually leaves the registry.
\* Right after notify(message, kind, duration) its auto-hide timer is due
\* in duration (3000 ms when none is given); a registered notification is
\* waiting for its auto-hide timer or for the end of its 300 ms exit
\* transition; and once hide() has run on it no auto-hide timer is pending
\* for it, so the timer never acts on a dismissed id.
C5_NotifyEventuallyRemoved ==
    /\ \A n \in 1..MaxNotifs :
          (n \in Ids /\ created[n] = "notify") ~> ~Registered(n)
    /\ [](\A n \in Ids \ Confirmations :
             /\ lastCall.op = "notify" /\ lastCall.n = n =>
                   [cb |-> "autoHide", n |-> n,
                    left |-> Ticks(IF lastCall.m = 0 THEN NOTIFICATION_DURATION
                                                     ELSE lastCall.m)] \in timers
             /\ Registered(n) => AutoHiding(NC, n) \/ Exiting(NC, n)
             /\ \A t \in timers : t.cb = "remove" /\ t.n = n => t.left <= Ticks(EXIT_DELAY)
             /\ (Exiting(NC, n) \/ ~Registered(n)) => ~AutoHiding(NC, n)
             /\ lastCall = Call("dismiss", n, 0) => ~AutoHiding(NC, n))

\* a notification that left the registry at the end of its exit transition
C5_Witness ==
    \E n \in Ids :
        /\ created[n] = "notify"
        /\ lastCall = Call("remove", n, 0)
        /\ ~Registered(n)
        /\ n \notin container

\* C6: a notification made by loading() stays in the registry, and no
\* auto-hide timer acts on it, until a method of its handle is called.
C6_LoadingPersistent ==
    \A n \in Ids :
        created[n] = "loading" =>
            /\ Registered(n)
            /\ lastCall # Call("autoHide", n, 0)

\* C7 as claimed: when handle.success / handle.error returns, the registry
\* holds the terminal notification and no longer the loading notification.
C7_ReplacedAtOnce ==
    lastCall.op = "finish" =>
        /\ Registered(lastCall.m)
        /\ ~Registered(lastCall.n)

\* C7 as the code has it: when handle.success / handle.error returns, the
\* registry holds the terminal notification, and the loading notification
\* is either gone or in its exit transition (auto-hide timer cancelled,
\* 'show' removed, removal due in 300 ms); after the handle was used the
\* loading notification is registered only while an exit transition runs.
C7_ReplacedAfterExit ==
    /\ lastCall.op = "finish" =>
          /\ Registered(lastCall.m)
          /\ AutoHiding(NC, lastCall.m)
          /\ Registered(lastCall.n) =>
                /\ [cb |-> "remove", n |-> lastCall.n,
                    left |-> Ticks(EXIT_DELAY)] \in timers
                /\ ~AutoHiding(NC, lastCall.n)
                /\ lastCall.n \notin shown
    /\ \A n \in Ids :
          (created[n] = "resolved" /\ Registered(n)) => Exiting(NC, n)

\* success() called on the handle while the loading notification is shown
C7_Witness ==
    /\ lastCall.op = "finish"
    /\ Registered(lastCall.n)
    /\ Registered(lastCall.m)

(***************************************************************************)
(* Claims about the gateway.                                               *)
(***************************************************************************)
IndexOf(ls) == IF ls.index.kind = "json" THEN ls.index.val ELSE <<>>
Entries(ls, id) == {i \in 1..Len(IndexOf(ls)) : IndexOf(ls)[i].id = id}
HasSlot(ls, id) == SlotKey(id) \in DOMAIN ls.slots

\* what C8 says of a step that saves qrData on the local path
UpsertedBy(qrData, before, after) ==
    /\ getSlot(after, qrData.id) = JSONstringify(qrData)
    /\ Cardinality(Entries(after, qrData.id)) = 1
    /\ \A i \in Entries(after, qrData.id) : IndexOf(after)[i] = qrData
    /\ Len(IndexOf(after)) = Len(IndexOf(before))
                             + (IF Entries(before, qrData.id) = {} THEN 1 ELSE 0)
    /\ \A i \in 1..Len(IndexOf(before)) :
          IndexOf(before)[i].id # qrData.id => IndexOf(after)[i] = IndexOf(before)[i]
    /\ DOMAIN after.slots = DOMAIN before.slots \cup {SlotKey(qrData.id)}
    /\ \A k \in DOMAIN before.slots \ {SlotKey(qrData.id)} :
          after.slots[k] = before.slots[k]
    /\ after.token = before.token

C9_RemoteFailureFallsBack ==
    (lastOp.op = "save" /\ lastOp.route = "fallback") =>
        /\ ACCESS_TOKEN # 0
        /\ lastOp.ret = TRUE <=> lastOp.fault = 0
        /\ Head(lastOp.notes) = "error"
        /\ lastOp.ret = TRUE =>
              /\ getSlot(localStorage, lastOp.id) = JSONstringify(lastOp.rec)
              /\ Cardinality(Entries(localStorage, lastOp.id)) = 1
              /\ \A i \in Entries(localStorage, lastOp.id) :
                    IndexOf(localStorage)[i] = lastOp.rec

C9_Witness ==
    /\ lastOp.op = "save" /\ lastOp.route = "fallback" /\ lastOp.ret = TRUE
    /\ ACCESS_TOKEN # 0
    /\ getSlot(localStorage, lastOp.id) = JSONstringify(lastOp.rec)
    /\ Len(IndexOf(localStorage)) > 1

Gone(ls, id) == Entries(ls, id) = {} /\ ~HasSlot(ls, id)

\* C10 as claimed: whenever delete(id) returns true for an id whose save
\* returned true, the index has no record with that id and its slot is
\* absent, whatever the connection state.
C10_DeletedEverywhere ==
    (lastOp.op = "delete" /\ lastOp.ret = TRUE /\ lastOp.id \in savedOk) =>
        Gone(localStorage, lastOp.id)

\* C10, amended: whenever delete(id) returns true on the local path (the
\* gateway was Disconnected when it was called) for an id whose save
\* returned true, the index has no record with that id and its slot is
\* absent.
C10_DeletedLocally ==
    (lastOp.op = "delete" /\ lastOp.route = "local" /\ lastOp.ret = TRUE
        /\ lastOp.id \in savedOk) =>
        Gone(localStorage, lastOp.id)

\* a local delete of a saved id while other records remain in the index
C10_Witness ==
    /\ lastOp.op = "delete" /\ lastOp.route = "local" /\ lastOp.ret = TRUE
    /\ lastOp.id \in savedOk
    /\ Len(IndexOf(localStorage)) > 0
    /\ Gone(localStorage, lastOp.id)

\* the ids of the records present locally: in a slot or in the index
LocalIds(ls) ==
    {k[2] : k \in DOMAIN ls.slots} \cup {IndexOf(ls)[i].id : i \in 1..Len(IndexOf(ls))}

\* what C11 says of a delete step: an id that is nowhere is a success that
\* changes nothing, and the same delete again gives the same result and store
DeleteIsNoOpAndIdempotent ==
    /\ Gone(localStorage, lastOp'.id) =>
          lastOp'.ret = TRUE /\ localStorage' = localStorage
    /\ LET again == deleteQRCodeFromLocalStorage(localStorage', lastOp'.id, 0)
       IN  lastOp'.route = "local" =>
              again.ret = lastOp'.ret /\ again.ls = localStorage'

C12_LoadAllReplacesAndCounts ==
    (lastOp.op = "loadAll" /\ lastOp.route = "remote") =>
        /\ IndexOf(localStorage) = simulatedQRCodes
        /\ lastOp.ret = Cardinality(LocalIds(localStorage))

\* C13: loadAll() while Disconnected returns the number of individual
\* slots and changes neither localStorage nor the gateway's token or
\* suspended calls.
C13_LocalLoadAllCountsSlots ==
    [][(lastOp'.op = "loadAll" /\ lastOp'.route = "local") =>
          /\ ACCESS_TOKEN = 0
          /\ lastOp'.ret = Cardinality(DOMAIN localStorage.slots)
          /\ localStorage' = localStorage
          /\ ACCESS_TOKEN' = ACCESS_TOKEN
          /\ inflight' = inflight]_vars

\* a local loadAll over a store whose slots and index differ in number
C13_Witness ==
    /\ lastOp.op = "loadAll" /\ lastOp.route = "local"
    /\ lastOp.ret > 0
    /\ lastOp.ret # Len(IndexOf(localStorage))
    /\ lastOp.ret = Cardinality(DOMAIN localStorage.slots)

\* C14: when a connect() call completes with true the gateway is
\* Connected: the token is set in memory and in localStorage.
C14_ConnectCompletesConnected ==
    (lastOp.op = "connect" /\ lastOp.route = "remote") =>
        /\ lastOp.ret = TRUE
        /\ isGitHubConnected
        /\ localStorage.token # 0

\* C15: a newly constructed gateway is Connected exactly when a token is
\* stored in localStorage, and it starts with no remote call under way.
C15_ConnectedIffTokenStored ==
    lastOp.op = "construct" =>
        /\ isGitHubConnected <=> localStorage.token # 0
        /\ lastOp.ret = isGitHubConnected
        /\ inflight = {}

\* a gateway constructed over a stored token and stored records
C15_Witness ==
    /\ lastOp.op = "construct"
    /\ isGitHubConnected /\ localStorage.token # 0
    /\ Len(IndexOf(localStorage)) > 0

\* C16: disconnect() clears the token in memory and in localStorage and
\* leaves the index and every slot as they were; while the gateway has no
\* token every save, loadAll or delete that starts completes at once on the
\* local path, and the only call that can suspend is a connect.
C16_DisconnectClearsTokenOnly ==
    [][/\ lastOp'.op = "disconnect" =>
            /\ ACCESS_TOKEN' = 0 /\ localStorage'.token = 0
            /\ localStorage'.index = localStorage.index
            /\ localStorage'.slots = localStorage.slots
            /\ inflight' = inflight
       /\ (ACCESS_TOKEN = 0 /\ inflight' = inflight
             /\ lastOp'.op \in {"save", "loadAll", "delete"}) =>
            lastOp'.route = "local"
       /\ ACCESS_TOKEN = 0 =>
            \A o \in inflight' \ inflight : o.op = "connect"]_vars

\* a local save made after a disconnect that left loaded records in place
C16_Witness ==
    /\ lastOp.op = "save" /\ lastOp.route = "local" /\ lastOp.ret = TRUE
    /\ ~isGitHubConnected /\ localStorage.token = 0
    /\ HasSlot(localStorage, simulatedQRCodes[1].id)

\* the operations on records: save, loadAll, delete, exportAll, importAll
DataOps == {"save", "loadAll", "delete", "export", "import"}

\* C17: every step of save, loadAll, delete, exportAll or importAll, be it
\* the start of the call, its continuation after the await, a failure or a
\* fallback, leaves the token in memory and the stored token as they were.
C17_OnlyConnectAndDisconnectSwitch ==
    [][(lastOp'.op \in DataOps \/ \E o \in inflight' \ inflight : o.op \in DataOps) =>
          /\ ACCESS_TOKEN' = ACCESS_TOKEN
          /\ localStorage'.token = localStorage.token]_vars

\* a save whose remote path failed and whose local write failed too, on a
\* gateway that is still Connected
C17_Witness ==
    /\ lastOp.op = "save" /\ lastOp.route = "fallback" /\ lastOp.ret = FALSE
    /\ isGitHubConnected /\ localStorage.token # 0

Range(seq) == {seq[i] : i \in 1..Len(seq)}

\* C18: the file made by exportAll() holds every record listed in the
\* index and every record held in a slot.
C18_ExportHoldsEveryRecord ==
    lastOp.op = "export" =>
        LET exported == {e.val : e \in Range(lastOp.out.qrCodes)}
        IN  /\ \A k \in DOMAIN localStorage.slots :
                  JSONparse(localStorage.slots[k]) \in exported
            /\ \A i \in 1..Len(IndexOf(localStorage)) :
                  IndexOf(localStorage)[i] \in exported

\* the file cannot be read or parsed, has no records list, holds an entry
\* that raises, or a write raises
Rejected(file, fault) ==
    \/ file.kind # "backup"
    \/ \E k \in 1..Len(file.qrCodes) : file.qrCodes[k].kind = "null"
    \/ fault # 0

\* C19: an import that rejects its file returns 0, issues an error
\* notification and leaves every key of localStorage as it was.
C19_RejectedImportWritesNothing ==
    [][(lastOp'.op = "import" /\ Rejected(lastOp'.arg, lastOp'.fault)) =>
          /\ lastOp'.ret = 0
          /\ lastOp'.notes = <<"error">>
          /\ localStorage' = localStorage]_vars

WellFormed(file) ==
    file.kind = "backup" /\ \A e \in Range(file.qrCodes) : e.kind = "object"

\* C20: an import of a well-formed file with n records, no write raising,
\* returns n; a record with an id is written under that id, and a record
\* without one under an id that no record in localStorage had and that no
\* other record of the same import has.
C20_ImportKeepsOrAssignsFreshIds ==
    [][(lastOp'.op = "import" /\ WellFormed(lastOp'.arg) /\ lastOp'.fault = 0) =>
          LET given == lastOp'.arg.qrCodes
              written == lastOp'.out
          IN  /\ lastOp'.ret = Len(given)
              /\ Len(written) = Len(given)
              /\ \A i \in 1..Len(given) :
                    IF NoId(given[i].val)
                    THEN /\ written[i].id \notin LocalIds(localStorage)
                         /\ \A j \in 1..Len(given) : j # i => written[j].id # written[i].id
                    ELSE written[i].id = given[i].val.id]_vars

\* the store with its index and slots removed
Emptied(ls) == [ls EXCEPT !.index = NoItem, !.slots = <<>>]

\* two stores list the same ids in their indexes, with the same fields
SameIndex(a, b) ==
    /\ {IndexOf(a)[i].id : i \in 1..Len(IndexOf(a))}
         = {IndexOf(b)[i].id : i \in 1..Len(IndexOf(b))}
    /\ \A i \in 1..Len(IndexOf(a)) : \A j \in 1..Len(IndexOf(b)) :
          IndexOf(a)[i].id = IndexOf(b)[j].id => IndexOf(a)[i] = IndexOf(b)[j]

\* C21: for a store with a non-empty index, importing the file made by
\* exportAll(), into the same store or into an emptied one, gives an index
\* with the ids and the field values of the original index.
C21_RoundTripRestoresIndex ==
    Len(IndexOf(localStorage)) > 0 =>
        \A target \in {localStorage, Emptied(localStorage)} :
            \A fresh \in Draws(exportAllQRCodes(localStorage)) :
                SameIndex(importQRCodesFromBackup(target, exportAllQRCodes(localStorage),
                                                  fresh, 0).ls,
                          localStorage)

\* a localStorage write raised during the call: for save the write of the
\* slot or of the index, for delete the rewrite of an index that exists
WriteRaised(op, fault, before) ==
    /\ fault # 0
    /\ op = "delete" => before.index.kind # "null"

\* C23: a save or delete on the local path during which a localStorage
\* write raises returns false and issues an error notification and no
\* success notification.
C23_LocalWriteFailureReported ==
    [][(lastOp'.op \in {"save", "delete"} /\ lastOp'.route \in {"local", "fallback"}
          /\ WriteRaised(lastOp'.op, lastOp'.fault, localStorage)) =>
          /\ lastOp'.ret = FALSE
          /\ "error" \in Range(lastOp'.notes)
          /\ "success" \notin Range(lastOp'.notes)]_vars

\* a local delete that removed the slot and failed to rewrite the index
C23_Witness ==
    /\ lastOp.op = "delete" /\ lastOp.route = "local" /\ lastOp.fault # 0
    /\ lastOp.ret = FALSE
    /\ ~HasSlot(localStorage, lastOp.id)
    /\ Entries(localStorage, lastOp.id) # {}

\* C27: connect() and disconnect(), at the start of the call and at its
\* continuation, leave the index, the slots and the count that a local
\* loadAll() returns as they were; a continuation of connect() does not set
\* the token again; and a loadAll() on a gateway without a token returns
\* the number of slots and changes nothing, so connect(), disconnect(),
\* loadAll() gives what loadAll() gives on a gateway that never connected.
C27_ConnectDisconnectLoadAll ==
    [][/\ (lastOp'.op \in {"connect", "disconnect"}
             \/ \E o \in inflight' \ inflight : o.op = "connect") =>
            /\ localStorage'.index = localStorage.index
            /\ localStorage'.slots = localStorage.slots
            /\ loadAllQRCodesFromLocalStorage(localStorage').ret
                 = loadAllQRCodesFromLocalStorage(localStorage).ret
       /\ lastOp'.op = "disconnect" => ACCESS_TOKEN' = 0
       /\ (lastOp'.op = "connect" /\ lastOp'.route = "remote") =>
            ACCESS_TOKEN' = ACCESS_TOKEN
       /\ (ACCESS_TOKEN = 0 /\ lastOp'.op = "loadAll" /\ inflight' = inflight) =>
            /\ lastOp'.ret = loadAllQRCodesFromLocalStorage(localStorage).ret
            /\ localStorage' = localStorage]_vars

\* a loadAll() that counted the local records after connect() and
\* disconnect(), the connect still suspended
C27_Witness ==
    /\ lastOp.op = "loadAll" /\ lastOp.route = "local" /\ lastOp.ret > 0
    /\ ACCESS_TOKEN = 0 /\ localStorage.token = 0
    /\ \E o \in inflight : o.op = "connect"

\* C30: a save, delete or loadAll suspended in its await completes on the
\* remote path whatever the token is by then: save and delete return true
\* and leave localStorage alone, and loadAll, no write raising, overwrites
\* the index with the remote set; nothing but a new page takes a suspended
\* call away.
C30_SuspendedCallsKeepTheirRoute ==
    [][lastOp'.op # "construct" =>
          \A o \in inflight \ inflight' :
                /\ lastOp'.op = o.op
                /\ o.op \in {"save", "delete"} =>
                      /\ lastOp'.route = "remote" /\ lastOp'.ret = TRUE
                      /\ localStorage' = localStorage
                /\ (o.op = "loadAll" /\ lastOp'.fault = 0) =>
                      /\ lastOp'.route = "remote"
                      /\ lastOp'.ret = Len(simulatedQRCodes)
                      /\ IndexOf(localStorage') = simulatedQRCodes]_vars

\* a loadAll that was started while Connected and completed after a
\* disconnect, dropping from the index a record saved locally in between
C30_Witness ==
    /\ lastOp.op = "loadAll" /\ lastOp.route = "remote"
    /\ ACCESS_TOKEN = 0 /\ localStorage.token = 0
    /\ IndexOf(localStorage) = simulatedQRCodes
    /\ \E id \in savedOk : HasSlot(localStorage, id) /\ Entries(localStorage, id) = {}

\* the content is empty once its leading and trailing whitespace is removed
Blank(str) == \A i \in 1..Len(str) : str[i] \in Whitespace

\* the step is a run of generateQRCode()
Generated == lastApp'.op = "generate"

\* C24: generateQRCode() with a content that is empty after trimming issues
\* exactly one error notification and leaves the current code, the preview,
\* the buttons and the form inputs as they were.
C24_EmptyContentOnlyNotifies ==
    [][(Generated /\ Blank(form.content))
         => /\ lastApp'.notes = <<"error">>
            /\ UNCHANGED <<form, currentQRCode, preview, buttons>>]_vars

\* generateQRCode() ran on a content of spaces while a code was on display
C24_Witness ==
    /\ lastApp.op = "generate"
    /\ form.content # <<>>
    /\ Blank(form.content)
    /\ lastApp.notes = <<"error">>
    /\ currentQRCode # NoCode
    /\ buttons.actions

\* the modules of the symbol the encoder reports dark
DarkModules(qr) ==
    {rc \in (1..Len(qr)) \X (1..Len(qr)) : qr[rc[1]][rc[2]]}

\* C25: on a non-empty content the encoder accepts, generateQRCode() issues
\* one fillRect per dark module and none for a light one, and the canvas has
\* as many dark cells as the symbol has dark modules.
C25_OneCellPerDarkModule ==
    (lastApp.op = "generate" /\ lastApp.notes = <<"success">>)
        => /\ Len(preview.fillRects) = Cardinality(DarkModules(lastApp.arg))
           /\ Cardinality(Range(preview.fillRects)) = Cardinality(DarkModules(lastApp.arg))

\* C29: when the encoder raises, generateQRCode() keeps the current code and
\* the form inputs, issues one error notification and leaves the generate
\* button enabled; every run that entered the loading state ends with the
\* button enabled.
C29_EncoderFailureKeepsCode ==
    [][(Generated /\ ~Blank(form.content))
         => /\ buttons'.generate = "idle"
            /\ lastApp'.arg = Raised
                 => /\ currentQRCode' = currentQRCode
                    /\ form' = form
                    /\ lastApp'.notes = <<"error">>]_vars

\* the encoder raised while a code was on display
C29_Witness ==
    /\ lastApp.op = "generate"
    /\ lastApp.arg = Raised
    /\ ~Blank(form.content)
    /\ lastApp.notes = <<"error">>
    /\ currentQRCode # NoCode
    /\ currentQRCode.content # trim(form.content)
    /\ buttons.generate = "idle"

\* C22: whatever the application and the gateway have done (save, sync,
\* delete, loadAll, importAll), with ids taken from the millisecond clock,
\* no two records of the local index have the same id.
C22_IndexIdsUnique ==
    \A i, j \in 1..Len(IndexOf(localStorage)) :
        IndexOf(localStorage)[i].id = IndexOf(localStorage)[j].id => i = j

\* a sync in the millisecond of an earlier save replaced the first of two
\* index entries
C22_Witness ==
    /\ lastApp.op = "sync"
    /\ lastApp.notes = <<"success", "success">>
    /\ Len(IndexOf(localStorage)) = 2
    /\ IndexOf(localStorage)[1] = lastApp.arg
    /\ \E i \in 1..Len(appSavedCodes) : appSavedCodes[i].id = lastApp.arg.id

\* the first maxLength characters with every maximal run of non-word
\* characters replaced by one underscore
RECURSIVE underscoreNonWord(_)
underscoreNonWord(str) ==
    IF str = <<>> THEN <<>>
    ELSE IF Head(str) \in WordChars
         THEN <<Head(str)>> \o underscoreNonWord(Tail(str))
         ELSE IF Len(str) > 1 /\ str[2] \notin WordChars
              THEN underscoreNonWord(Tail(str))
              ELSE <<"_">> \o underscoreNonWord(Tail(str))

ClaimedName(content) ==
    underscoreNonWord(SubSeq(content, 1,
                             IF Len(content) > maxLength THEN maxLength ELSE Len(content)))

\* C26: the name of a saved record is its content cut to 30 characters with
\* every maximal run of non-word characters replaced by one underscore
\* (https://example.com gives https_example_com).
C26_NameIsContentUnderscored ==
    (lastApp.op = "save" /\ lastApp.arg.id # 0)
        => lastApp.arg.name = ClaimedName(lastApp.arg.content)

\* C28: start-up, save, delete, loadAll, exportAll and importAll never end
\* with an exception or a rejected promise that nothing catches, whatever
\* localStorage holds, an index that is not JSON included.
C28_NoFailureIsFatal == ~appUncaught

\* the ids the index lists and the ids that have a slot
IndexIds(ls) == {IndexOf(ls)[i].id : i \in 1..Len(IndexOf(ls))}
SlotIds(ls) == {k[2] : k \in DOMAIN ls.slots}

\* C32: with no gateway call suspended, the index and the slots agree: they
\* hold the same ids, and each slot holds the values of the index entry with
\* its id.
C32_IndexAndSlotsAgree ==
    inflight = {}
        => /\ IndexIds(localStorage) = SlotIds(localStorage)
           /\ \A i \in 1..Len(IndexOf(localStorage)) :
                  getSlot(localStorage, IndexOf(localStorage)[i].id)
                      = JSONstringify(IndexOf(localStorage)[i])

\* the step starts a save or delete on the remote path, or completes one
RemoteStarted == \E o \in inflight' \ inflight : o.op \in {"save", "delete"}
RemoteCompleted == lastOp'.op \in {"save", "delete"} /\ lastOp'.route = "remote"

\* C33: a save or delete on the remote path returns true and leaves every
\* key of localStorage as it was: the saved record is put into neither the
\* index nor a slot, the deleted record keeps its index entry and its slot.
C33_RemotePathLeavesStoreAlone ==
    [][/\ (RemoteStarted \/ RemoteCompleted) => localStorage' = localStorage
       /\ RemoteCompleted
            => /\ lastOp'.ret = TRUE
               /\ HasSlot(localStorage', lastOp'.id) = HasSlot(localStorage, lastOp'.id)
               /\ Entries(localStorage', lastOp'.id) = Entries(localStorage, lastOp'.id)]_vars

\* a remote delete of a record that is stored locally has completed, and a
\* remote save has left no trace
C33_Witness ==
    /\ lastOp.op = "delete" /\ lastOp.route = "remote" /\ lastOp.ret
    /\ HasSlot(localStorage, lastOp.id)
    /\ Entries(localStorage, lastOp.id) # {}
    /\ \E id \in savedOk : ~HasSlot(localStorage, id) /\ Entries(localStorage, id) = {}

\* the step is a run of saveQRCode() in which the gateway's save has returned
SaveReturned == lastApp'.op = "save" /\ lastApp'.arg.id # 0 /\ lastOp'.op = "save"

\* C34: saveQRCode() pushes the record onto its list and announces the save
\* only when the gateway's save returned true; when it returned false the
\* list is unchanged and the application issues no success notification.
C34_PushOnlyOnSuccess ==
    [][(SaveReturned /\ ~lastOp'.ret)
         => /\ appSavedCodes' = appSavedCodes
            /\ "success" \notin Range(lastApp'.notes)]_vars

\* C31: deleteQRCode(id) of a listed record, confirmed by the user, removes
\* the record from the list, from the index and from its slot; when the
\* confirmation is not given, list, index and slots stay as they were.
C31_ConfirmedDeleteRemoves ==
    [][lastApp'.op = "delete"
         => /\ (lastApp'.arg.name = "yes" /\ FindIndex(appSavedCodes, lastApp'.arg.id) # 0)
                 => /\ FindIndex(appSavedCodes', lastApp'.arg.id) = 0
                    /\ Entries(localStorage', lastApp'.arg.id) = {}
                    /\ ~HasSlot(localStorage', lastApp'.arg.id)
            /\ lastApp'.arg.name # "yes"
                 => UNCHANGED <<appSavedCodes, localStorage>>]_vars

\* C35: while currentQRCode is null, save, sync, export and download issue an
\* error notification and nothing else: localStorage, the saved list and the
\* token are unchanged and no gateway call is started.  currentQRCode
\* becomes non-null only by a successful generate and never null again.
C35_NoCodeNoAction ==
    [][/\ (currentQRCode = NoCode
             /\ lastApp'.op \in {"save", "sync", "export", "download"})
            => /\ lastApp'.notes = <<"error">>
               /\ lastOp' = NoCall
               /\ UNCHANGED <<localStorage, appSavedCodes, ACCESS_TOKEN, inflight>>
       /\ (currentQRCode = NoCode /\ currentQRCode' # NoCode)
            => lastApp'.op = "generate" /\ lastApp'.notes = <<"success">>
       /\ currentQRCode # NoCode => currentQRCode' # NoCode]_vars

\* a sync was asked for while Connected and without a code, after the
\* encoder had refused the content
C35_Witness ==
    /\ currentQRCode = NoCode
    /\ lastApp.op = "sync"
    /\ lastApp.notes = <<"error">>
    /\ ACCESS_TOKEN # 0
    /\ inflight = {}
    /\ ~Blank(form.content)

\* the step is an input event; the step is a run of generateQRCode() made by
\* a timer of the input handler
InputEvent == lastApp'.op = "input" /\ burst'.since = 0
AutoGenerated == burst'.fired = burst.fired + 1

\* C36: an input event cancels the pending timer and starts one of 500 ms
\* without calling generateQRCode(); a timer runs generateQRCode() only
\* 500 ms after the last input event, at most once for that event, and only
\* if the content is not empty after trim at that moment.
C36_Debounced ==
    [][/\ InputEvent
            => /\ generateTimeout' = {Ticks(DEBOUNCE_DELAY)}
               /\ UNCHANGED <<currentQRCode, preview, buttons>>
       /\ AutoGenerated
            => /\ burst.since = Ticks(DEBOUNCE_DELAY)
               /\ burst.fired = 0
               /\ ~Blank(form.content)
       /\ (lastApp'.op = "timer" /\ Blank(form.content))
            => UNCHANGED <<currentQRCode, preview, buttons, burst>>]_vars

\* the timer has run generateQRCode() once, 500 ms after the last input
\* event and on the content that event left
C36_Witness ==
    /\ lastApp.op = "timer"
    /\ lastApp.notes = <<"success">>
    /\ burst = [since |-> Ticks(DEBOUNCE_DELAY), fired |-> 1]
    /\ generateTimeout = {}
    /\ currentQRCode.content = <<"h", "i", "!">>

==============================================================================
